---------------------------- MODULE Spec2Model ----------------------------
(***************************************************************************)
(* Retrieval and ranking subsystem of the agent scaffold:                  *)
(*   agent/core/retrieval.py            tokenizer, embedder, index, engine *)
(*   agent/core/retrieval_benchmark.py  benchmark runner, automated runner *)
(*                                                                         *)
(* Representation.                                                         *)
(*   - A Python str is a sequence of one-character strings.                *)
(*   - A float that the code rounds to 4 decimals is the integer number of *)
(*     1e-4 units (0.3333 is 3333, 1.0 is 10000).                          *)
(*   - An embedded vector {tok: count / norm} is the record                *)
(*     [cnt |-> token -> count, n2 |-> sum of the squared counts,          *)
(*      keys |-> the tokens in dict order]; the weight of tok is the float *)
(*     cnt[tok] / sqrt(n2).                                                *)
(*   - A float that the code computes with before it rounds is a binary64  *)
(*     value, computed as IEEE 754 arithmetic computes it.                 *)
(***************************************************************************)
EXTENDS Integers, Sequences, FiniteSets, TLC

VARIABLES
    docs,          \* RetrievalEngine.index._docs of the shared engine
    tag_boost,     \* RetrievalEngine.tag_boost of the shared engine (1e-4 units)
    source_boost,  \* RetrievalEngine.source_boost of the shared engine (1e-4 units)
    addLog,        \* ghost: the documents passed to add since the last reset
    lastOp,        \* ghost: the last operation on the shared engine: its name, argument,
                   \*   result, the result of the index.query call made inside
                   \*   engine.query, and the number of documents held before it
    adapters,      \* AutomatedBenchmarkRunner.adapters (name -> factory)
    history_limit, \* AutomatedBenchmarkRunner.history_limit
    history,       \* AutomatedBenchmarkRunner._history (deque)
    appended,      \* ghost: every result handed to _history.append, in order
    call,          \* the run_all call in progress or last returned (its frame)
    ncalls         \* number of run_all calls started

vars == <<docs, tag_boost, source_boost, addLog, lastOp,
          adapters, history_limit, history, appended, call, ncalls>>

indexVars == <<docs, tag_boost, source_boost, addLog, lastOp>>
autoVars == <<adapters, history_limit, history, appended, call, ncalls>>

(***************************************************************************)
(* Bounds of the model.                                                    *)
(***************************************************************************)
MaxDocs == 3        \* documents held by the shared index
MaxLimit == 2       \* history_limit values 0..MaxLimit
MaxCalls == 3       \* run_all calls on one runner
MaxTextLen == 3     \* characters of a text handed to embed_text

\* An optional argument or field: None, or Some(v) for a value v that is present.
None == [some |-> FALSE]

Some(v) == [some |-> TRUE, val |-> v]

\* Python truthiness of an optional list: "x or default" takes default for None and []
Falsy(x) == x = None \/ x.val = <<>>

(***************************************************************************)
(* Generic helpers.                                                        *)
(***************************************************************************)
Range(s) == {s[i] : i \in 1..Len(s)}

Min(a, b) == IF a <= b THEN a ELSE b

Max(a, b) == IF a >= b THEN a ELSE b

\* variant of SliceTo: keeps one element too many for k >= 0
SliceToMutantOffByOne(s, k) ==
    IF k >= 0 THEN SubSeq(s, 1, Min(k + 1, Len(s)))
    ELSE SubSeq(s, 1, Max(Len(s) + k, 0))

\* Python s[:k]: the first k elements; a negative k counts from the end.
SliceTo(s, k) ==
    IF k >= 0 THEN SubSeq(s, 1, Min(k, Len(s)))
    ELSE SubSeq(s, 1, Max(Len(s) + k, 0))

RECURSIVE SumSeq(_)
SumSeq(s) == IF s = <<>> THEN 0 ELSE s[1] + SumSeq(Tail(s))

(***************************************************************************)
(* Binary floating point.  The code's weights, scores, precisions and      *)
(* means are Python floats (IEEE 754 binary64, round to nearest, ties to   *)
(* even), and round(x, 4) rounds the exact binary value of x: a value that *)
(* the arithmetic leaves just below a decimal tie rounds down, one just    *)
(* above it rounds up.  A float x >= 0 is the record [m, e] standing for   *)
(* m * 2^e, where m is a natural number of any size written as its         *)
(* little-endian limbs in base 2^15 (no high zero limb; <<>> is 0).  TLC   *)
(* integers are 32 bit: a limb product plus two limbs stays below 2^31.    *)
(* The builtin sum() is that of CPython 3.12 and later, which adds floats  *)
(* with a compensation; the compensation is the one float that can be      *)
(* below zero, and a float of either sign carries the field neg as well.   *)
(***************************************************************************)
Scale == 10000

Base == 32768

LimbBits == 15

MantissaBits == 53

\* a without its high zero limbs
BigNorm(a) ==
    LET used == {i \in 1..Len(a) : a[i] # 0}
    IN  IF used = {} THEN <<>>
        ELSE SubSeq(a, 1, CHOOSE i \in used : \A j \in used : j <= i)

\* the limbs of an integer 0 <= n < 2^31
BigFromInt(n) == BigNorm(<<n % Base, (n \div Base) % Base, n \div (Base * Base)>>)

Limb(a, i) == IF i >= 1 /\ i <= Len(a) THEN a[i] ELSE 0

\* the integer of at most three limbs
BigToInt(a) == Limb(a, 1) + Limb(a, 2) * Base + Limb(a, 3) * Base * Base

BigLess(a, b) ==
    \/ Len(a) < Len(b)
    \/ /\ Len(a) = Len(b)
       /\ \E i \in 1..Len(a) : a[i] < b[i] /\ \A j \in (i + 1)..Len(a) : a[j] = b[j]

\* a + b.  The carry into limb i is 1 when some lower limb pair overflows
\* and every pair between passes the carry on.
BigAdd(a, b) ==
    IF a = <<>> THEN b
    ELSE IF b = <<>> THEN a
    ELSE LET n == Max(Len(a), Len(b))
             s == SubSeq([i \in 1..n |-> Limb(a, i) + Limb(b, i)], 1, n)
             carry == [i \in 1..(n + 1) |->
                          IF \E j \in 1..(i - 1) :
                                 s[j] >= Base /\ \A k \in (j + 1)..(i - 1) : s[k] = Base - 1
                          THEN 1 ELSE 0]
         IN  BigNorm([i \in 1..(n + 1) |->
                         IF i <= n THEN (s[i] + carry[i]) % Base ELSE carry[i]])

\* a - b for a >= b.  Limb i borrows when some lower limb pair falls short
\* and every pair between passes the borrow on.
BigSub(a, b) ==
    IF b = <<>> THEN a
    ELSE LET d == SubSeq([i \in 1..Len(a) |-> a[i] - Limb(b, i)], 1, Len(a))
             borrow == [i \in 1..Len(a) |->
                           IF \E j \in 1..(i - 1) :
                                  d[j] < 0 /\ \A k \in (j + 1)..(i - 1) : d[k] = 0
                           THEN 1 ELSE 0]
         IN  BigNorm([i \in 1..Len(a) |-> (d[i] - borrow[i] + Base) % Base])

\* a * Base^n
BigUp(a, n) == IF a = <<>> THEN a ELSE [i \in 1..n |-> 0] \o a

\* a * d for one limb d: the low limbs of the limb products plus their high
\* limbs one place up
BigMulLimb(a, d) ==
    IF a = <<>> THEN a
    ELSE BigAdd(BigNorm([i \in 1..Len(a) |-> (a[i] * d) % Base]),
                BigUp(BigNorm([i \in 1..Len(a) |-> (a[i] * d) \div Base]), 1))

\* a * b: the rows a * b[i] * Base^(i - 1), added from the top row down
RECURSIVE BigMulRows(_, _, _)
BigMulRows(a, b, i) ==
    IF i > Len(b) THEN <<>>
    ELSE BigAdd(BigMulRows(a, b, i + 1), BigUp(BigMulLimb(a, b[i]), i - 1))

BigMul(a, b) == IF a = <<>> THEN a ELSE BigMulRows(a, b, 1)

\* number of binary digits of a
BitLen(a) ==
    IF a = <<>> THEN 0
    ELSE (Len(a) - 1) * LimbBits
         + (CHOOSE k \in 1..LimbBits : 2^(k - 1) <= a[Len(a)] /\ a[Len(a)] < 2^k)

\* a * 2^n: every limb leaves its low digits in place and hands its high
\* digits to the next place
BigShl(a, n) ==
    IF a = <<>> THEN a
    ELSE BigUp(BigNorm([i \in 1..(Len(a) + 1) |->
                          ((Limb(a, i) * 2^(n % LimbBits)) % Base)
                          + ((Limb(a, i - 1) * 2^(n % LimbBits)) \div Base)]),
               n \div LimbBits)

\* a \div 2^n
BigShr(a, n) ==
    IF a = <<>> THEN a
    ELSE LET whole == n \div LimbBits
             r == n % LimbBits
         IN  BigNorm([i \in 1..(Len(a) - whole) |->
                         (a[whole + i] \div 2^r)
                         + (Limb(a, whole + i + 1) % 2^r) * 2^(LimbBits - r)])

\* a % 2^n
BigLow(a, n) ==
    IF a = <<>> THEN a
    ELSE BigNorm([i \in 1..Min(Len(a), n \div LimbBits + 1) |->
                     IF i <= n \div LimbBits THEN a[i] ELSE a[i] % 2^(n % LimbBits)])

\* q, or q + 1 when the part low that was cut off q is more than half, or is
\* half and q is odd
RoundHalfEven(q, low, half) ==
    IF BigLess(half, low) \/ (low = half /\ Limb(q, 1) % 2 = 1) THEN BigAdd(q, <<1>>)
    ELSE q

\* n \div 2^bits, rounded to the nearest, an exact tie to the even one
BigRoundShr(n, bits) ==
    RoundHalfEven(BigShr(n, bits), BigLow(n, bits), BigShl(<<1>>, bits - 1))

\* m * 2^e for a natural m of any size, rounded to MantissaBits binary digits:
\* to the nearest, an exact tie to the even one
FRound(m, e) ==
    IF BitLen(m) <= MantissaBits THEN [m |-> m, e |-> e]
    ELSE [m |-> BigRoundShr(m, BitLen(m) - MantissaBits),
          e |-> e + BitLen(m) - MantissaBits]

\* float(n) for an integer 0 <= n < 2^31: exact
FInt(n) == [m |-> BigFromInt(n), e |-> 0]

\* x * y
FMul(x, y) ==
    IF x.m = <<>> THEN x
    ELSE IF y.m = <<>> THEN y
    ELSE FRound(BigMul(x.m, y.m), x.e + y.e)

\* One step of the long division by b in base 2^15, b with top limb at least
\* Base / 2: the limb of the quotient at place pos (places count from 0),
\* given the limbs above it and what they leave of the dividend.  The limb is
\* at most guess, the quotient of the two top limbs left by the top limb of b,
\* and at least guess - 2; parts holds b times guess, guess - 1 and guess - 2
\* at place pos, and the limb is the first of them that fits.
DivLimbPick(above, guess, parts) ==
    LET k == CHOOSE j \in 1..3 :
                 /\ ~BigLess(above.rem, parts[j])
                 /\ \A i \in 1..(j - 1) : BigLess(above.rem, parts[i])
    IN  [quot |-> <<Max(guess + 1 - k, 0)>> \o above.quot,
         rem |-> BigSub(above.rem, parts[k])]

DivLimb(above, b, pos) ==
    IF above.rem = <<>> THEN [quot |-> <<0>> \o above.quot, rem |-> <<>>]
    ELSE LET guess == Min((Limb(above.rem, pos + Len(b) + 1) * Base
                           + Limb(above.rem, pos + Len(b))) \div b[Len(b)], Base - 1)
         IN  DivLimbPick(above, guess,
                         SubSeq([j \in 1..3 |->
                                    BigUp(BigMulLimb(b, Max(guess + 1 - j, 0)), pos)],
                                1, 3))

RECURSIVE DivLimbs(_, _, _)
DivLimbs(a, b, pos) ==
    IF pos + Len(b) > Len(a) THEN [quot |-> <<>>, rem |-> a]
    ELSE DivLimb(DivLimbs(a, b, pos + 1), b, pos)

\* a \div b for b > 0: both are first scaled so that the top limb of b is at
\* least Base / 2, which leaves the quotient as it is
BigDiv(a, b) ==
    IF BigLess(a, b) THEN <<>>
    ELSE LET scale == LimbBits - (BitLen(b) - (Len(b) - 1) * LimbBits)
         IN  BigNorm(DivLimbs(BigShl(a, scale), BigShl(b, scale), 0).quot)

\* q with one binary digit more: 1 when q * b falls short of a, else 0
WithRest(q, b, a) == BigAdd(BigShl(q, 1), IF BigMul(q, b) = a THEN <<>> ELSE <<1>>)

\* x / y for y > 0.  The quotient is taken with at least three binary digits
\* more than the mantissa holds and a last digit that says whether anything
\* is left over, which is all that rounding to nearest needs.
FDiv(x, y) ==
    IF x.m = <<>> \/ y.m = <<1>> THEN [m |-> x.m, e |-> x.e - y.e]
    ELSE LET shift == Max(MantissaBits + 3 + BitLen(y.m) - BitLen(x.m), 0)
             a == BigShl(x.m, shift)
         IN  FRound(WithRest(BigDiv(a, y.m), y.m, a), x.e - y.e - shift - 1)

\* one step of Newton's iteration for the square root of a: (r + a \div r) \div 2,
\* which is never below the integer part of the root
SqrtStep(a, r) == IF r = <<>> THEN r ELSE BigShr(BigAdd(r, BigDiv(a, r)), 1)

RECURSIVE SqrtSteps(_, _, _)
SqrtSteps(a, r, n) == IF n = 0 THEN r ELSE SqrtStep(a, SqrtSteps(a, r, n - 1))

\* r, or r - 1 when r * r is more than a
SqrtFloor(a, r) == IF BigLess(a, BigMul(r, r)) THEN BigSub(r, <<1>>) ELSE r

\* the integer part of the square root of a, for a of 111 or 112 binary
\* digits.  The first r comes from the top 15 or 16 digits of a, rounded up,
\* so it is within 1/128 of the root; each step squares that error, and after
\* three steps r is the integer part of the root or one more.
BigSqrt(a) ==
    LET cut == 2 * ((BitLen(a) - 15) \div 2)
        top == BigToInt(BigShr(a, cut))
        root == CHOOSE r \in 1..256 : (r - 1) * (r - 1) <= top /\ top < r * r
    IN  SqrtFloor(a, SqrtSteps(a, BigShl(BigFromInt(root), cut \div 2), 3))

\* r with one binary digit more: 1 when r * r falls short of a, else 0
SquareRest(r, a) == WithRest(r, r, a)

\* math.sqrt(n) for an integer 0 < n < 2^31.  n is scaled by an even power of
\* two to 111 or 112 binary digits, so that its root has 56: three more than
\* the mantissa holds, and a last digit added below says whether the root is
\* exact, which is all that rounding to nearest needs.
FSqrt(n) ==
    LET shift == 2 * ((2 * (MantissaBits + 3) - BitLen(BigFromInt(n))) \div 2)
    IN  FRound(SquareRest(BigSqrt(BigShl(BigFromInt(n), shift)),
                          BigShl(BigFromInt(n), shift)),
               0 - (shift \div 2) - 1)

\* round(x, 4) in 1e-4 units: x * 10^4 to the nearest integer, an exact tie to
\* the even one, for x < 2^17
PyRound4(x) ==
    IF x.e >= 0 THEN BigToInt(BigShl(BigMulLimb(x.m, Scale), x.e))
    ELSE BigToInt(BigRoundShr(BigMulLimb(x.m, Scale), 0 - x.e))

\* the float that round(x, 4) returns for k units of 1e-4: the float nearest
\* to k / 10^4
FUnits(k) == FDiv(FInt(k), FInt(Scale))

\* a float of either sign: the float [m, e] of its size, and whether it is
\* below zero
Signed(neg, x) == [neg |-> neg, m |-> x.m, e |-> x.e]

Unsigned(x) == [m |-> x.m, e |-> x.e]

\* fabs(x) < fabs(y)
LessAbs(x, y) ==
    BigLess(BigShl(x.m, x.e - Min(x.e, y.e)), BigShl(y.m, y.e - Min(x.e, y.e)))

\* the sum of two signed integers a and b times 2^e, rounded to a float
SAddAligned(xneg, a, yneg, b, e) ==
    Signed(IF BigLess(a, b) THEN yneg ELSE xneg,
           FRound(IF xneg = yneg THEN BigAdd(a, b)
                  ELSE IF BigLess(a, b) THEN BigSub(b, a)
                  ELSE BigSub(a, b),
                  e))

\* x + y for floats of either sign
SAdd(x, y) ==
    IF x.m = <<>> THEN y
    ELSE IF y.m = <<>> THEN x
    ELSE SAddAligned(x.neg, BigShl(x.m, x.e - Min(x.e, y.e)),
                     y.neg, BigShl(y.m, y.e - Min(x.e, y.e)), Min(x.e, y.e))

\* c += (big - t) + small ; f_result = t, for a sum t that is not below zero
SumCompensate(acc, t, big, small) ==
    [f |-> t, c |-> SAdd(acc.c, SAdd(SAdd(big, Signed(TRUE, t)), small))]

\* One float item x of sum() once the running result is a float: the
\* compensated addition (Neumaier) of the builtin sum of CPython 3.12 and
\* later, f the running sum and c the compensation
\*     t = f + x
\*     c += (f - t) + x  if fabs(f) >= fabs(x)  else  (x - t) + f
\*     f = t
SumStep(acc, x) ==
    IF LessAbs(acc.f, x) THEN SumCompensate(acc, SAdd(acc.f, x), x, acc.f)
    ELSE SumCompensate(acc, SAdd(acc.f, x), acc.f, x)

\* the first item is added to the integer 0 the sum starts from, which gives
\* the item; the items after it are added with compensation
RECURSIVE SumLoop(_, _)
SumLoop(values, n) ==
    IF n = 1 THEN [f |-> Signed(FALSE, values[1]), c |-> Signed(FALSE, FInt(0))]
    ELSE SumStep(SumLoop(values, n - 1), Signed(FALSE, values[n]))

\* at the end of the items: if c is not zero, f += c
SumEnd(acc) == IF acc.c.m = <<>> THEN Unsigned(acc.f) ELSE Unsigned(SAdd(acc.f, acc.c))

\* sum(values) for n floats values[1..n], none below zero
FSum(values, n) == IF n = 0 THEN FInt(0) ELSE SumEnd(SumLoop(values, n))

(***************************************************************************)
(* round(x, 4) without the floating point.  When the exact value of what   *)
(* the code computes is not a decimal tie, and is further from every tie   *)
(* than the floating point can be from the exact value, round gives the    *)
(* exact value rounded; the operators below take that way where it is      *)
(* safe and the floating point itself everywhere else.                     *)
(***************************************************************************)
\* a * den  <=  m * Scale * Scale, for 0 <= a <= 5e8, den <= 50000, m <= 200000
LeqScaled(a, den, m) ==
    LET hi == (a \div Scale) * den + ((a % Scale) * den) \div Scale
        lo == ((a % Scale) * den) % Scale
    IN  hi < m * Scale \/ (hi = m * Scale /\ lo = 0)

LtScaled(a, den, m) ==
    LET hi == (a \div Scale) * den + ((a % Scale) * den) \div Scale
    IN  hi < m * Scale

\* floor(Scale * num / sqrt(den2)) by bisection on lo..hi, for 0 <= num*num <= den2
RECURSIVE FloorScaled(_, _, _, _)
FloorScaled(num, den2, lo, hi) ==
    IF lo = hi THEN lo
    ELSE LET mid == (lo + hi + 1) \div 2
         IN  IF LeqScaled(mid * mid, den2, num * num)
             THEN FloorScaled(num, den2, mid, hi)
             ELSE FloorScaled(num, den2, lo, mid - 1)

\* round(x / y, 4) in 1e-4 units for integers x >= 0 and y > 0 (int / int is a
\* float division).  The float is within x / y * 2^-53 of x / y, and x / y is
\* either a tie or at least 1 / (2 * 10^4 * y) from it, which is more for every
\* x below 2^31: only a tie needs the float.
Round4Ratio(x, y) ==
    LET q == (x * Scale) \div y
        rest == (x * Scale) % y
    IN  IF 2 * rest = y THEN PyRound4(FDiv(FInt(x), FInt(y)))
        ELSE IF 2 * rest > y THEN q + 1
        ELSE q

\* the longest list whose mean is rounded without the floating point
MaxExactLen == 1000

\* round(sum(values) / max(len(values), 1), 4) in 1e-4 units, for values that
\* round(.., 4) returned: floats, each the nearest to its k / 10^4.  The sum
\* and the division of n values are within (n + 2) * 2^-53 of the exact mean
\* in proportion, and the exact mean is a tie or at least 1 / (2 * 10^4 * n)
\* from it: up to MaxExactLen values below 2^17 only a tie needs the floats.
Round4Mean(values) ==
    LET n == Max(Len(values), 1)
        total == SumSeq(values)
        floats == SubSeq([i \in 1..Len(values) |-> FUnits(values[i])], 1, Len(values))
    IN  IF 2 * (total % n) = n \/ n > MaxExactLen
        THEN PyRound4(FDiv(FSum(floats, Len(values)), FInt(n)))
        ELSE IF 2 * (total % n) > n THEN total \div n + 1
        ELSE total \div n

(***************************************************************************)
(* retrieval.py: _tokenize, _normalize, embed_text                         *)
(***************************************************************************)
\* The characters c with c.isspace(): str.split() with no argument splits on
\* runs of them and str.strip() with no argument strips them (retrieval.py:15).
\* The first line holds space, U+0009 to U+000D and U+001C to U+001F, the
\* second U+0085 and U+00A0; a character above U+00FF, and the grave accent
\* U+0060, is written as the name of its code point.
Whitespace ==
    {" ", "\t", "\n", "", "\f", "\r", "", "", "", "",
     "", " ",
     "U+1680", "U+2000", "U+2001", "U+2002", "U+2003", "U+2004", "U+2005", "U+2006",
     "U+2007", "U+2008", "U+2009", "U+200A", "U+2028", "U+2029", "U+202F", "U+205F",
     "U+3000"}

\* the argument of t.strip(...) at retrieval.py:15.  The literal is two adjacent
\* string literals, ".,;:!?()[]{}<>" and "'\n\t": the double quote is not in it.
StripChars == {".", ",", ";", ":", "!", "?", "(", ")", "[", "]", "{", "}",
               "<", ">", "'", "\n", "\t"}

\* The characters that str.lower() changes to one other character, in the
\* order of their code points; U+0130 is not among them
UpperChars ==
    <<"A", "B", "C", "D", "E", "F", "G", "H",
      "I", "J", "K", "L", "M", "N", "O", "P",
      "Q", "R", "S", "T", "U", "V", "W", "X",
      "Y", "Z", "À", "Á", "Â", "Ã", "Ä", "Å",
      "Æ", "Ç", "È", "É", "Ê", "Ë", "Ì", "Í",
      "Î", "Ï", "Ð", "Ñ", "Ò", "Ó", "Ô", "Õ",
      "Ö", "Ø", "Ù", "Ú", "Û", "Ü", "Ý", "Þ",
      "U+0100", "U+0102", "U+0104", "U+0106", "U+0108", "U+010A", "U+010C", "U+010E",
      "U+0110", "U+0112", "U+0114", "U+0116", "U+0118", "U+011A", "U+011C", "U+011E",
      "U+0120", "U+0122", "U+0124", "U+0126", "U+0128", "U+012A", "U+012C", "U+012E",
      "U+0132", "U+0134", "U+0136", "U+0139", "U+013B", "U+013D", "U+013F", "U+0141",
      "U+0143", "U+0145", "U+0147", "U+014A", "U+014C", "U+014E", "U+0150", "U+0152",
      "U+0154", "U+0156", "U+0158", "U+015A", "U+015C", "U+015E", "U+0160", "U+0162",
      "U+0164", "U+0166", "U+0168", "U+016A", "U+016C", "U+016E", "U+0170", "U+0172",
      "U+0174", "U+0176", "U+0178", "U+0179", "U+017B", "U+017D", "U+0181", "U+0182",
      "U+0184", "U+0186", "U+0187", "U+0189", "U+018A", "U+018B", "U+018E", "U+018F",
      "U+0190", "U+0191", "U+0193", "U+0194", "U+0196", "U+0197", "U+0198", "U+019C",
      "U+019D", "U+019F", "U+01A0", "U+01A2", "U+01A4", "U+01A6", "U+01A7", "U+01A9",
      "U+01AC", "U+01AE", "U+01AF", "U+01B1", "U+01B2", "U+01B3", "U+01B5", "U+01B7",
      "U+01B8", "U+01BC", "U+01C4", "U+01C5", "U+01C7", "U+01C8", "U+01CA", "U+01CB",
      "U+01CD", "U+01CF", "U+01D1", "U+01D3", "U+01D5", "U+01D7", "U+01D9", "U+01DB",
      "U+01DE", "U+01E0", "U+01E2", "U+01E4", "U+01E6", "U+01E8", "U+01EA", "U+01EC",
      "U+01EE", "U+01F1", "U+01F2", "U+01F4", "U+01F6", "U+01F7", "U+01F8", "U+01FA",
      "U+01FC", "U+01FE", "U+0200", "U+0202", "U+0204", "U+0206", "U+0208", "U+020A",
      "U+020C", "U+020E", "U+0210", "U+0212", "U+0214", "U+0216", "U+0218", "U+021A",
      "U+021C", "U+021E", "U+0220", "U+0222", "U+0224", "U+0226", "U+0228", "U+022A",
      "U+022C", "U+022E", "U+0230", "U+0232", "U+023A", "U+023B", "U+023D", "U+023E",
      "U+0241", "U+0243", "U+0244", "U+0245", "U+0246", "U+0248", "U+024A", "U+024C",
      "U+024E", "U+0370", "U+0372", "U+0376", "U+037F", "U+0386", "U+0388", "U+0389",
      "U+038A", "U+038C", "U+038E", "U+038F", "U+0391", "U+0392", "U+0393", "U+0394",
      "U+0395", "U+0396", "U+0397", "U+0398", "U+0399", "U+039A", "U+039B", "U+039C",
      "U+039D", "U+039E", "U+039F", "U+03A0", "U+03A1", "U+03A3", "U+03A4", "U+03A5",
      "U+03A6", "U+03A7", "U+03A8", "U+03A9", "U+03AA", "U+03AB", "U+03CF", "U+03D8",
      "U+03DA", "U+03DC", "U+03DE", "U+03E0", "U+03E2", "U+03E4", "U+03E6", "U+03E8",
      "U+03EA", "U+03EC", "U+03EE", "U+03F4", "U+03F7", "U+03F9", "U+03FA", "U+03FD",
      "U+03FE", "U+03FF", "U+0400", "U+0401", "U+0402", "U+0403", "U+0404", "U+0405",
      "U+0406", "U+0407", "U+0408", "U+0409", "U+040A", "U+040B", "U+040C", "U+040D",
      "U+040E", "U+040F", "U+0410", "U+0411", "U+0412", "U+0413", "U+0414", "U+0415",
      "U+0416", "U+0417", "U+0418", "U+0419", "U+041A", "U+041B", "U+041C", "U+041D",
      "U+041E", "U+041F", "U+0420", "U+0421", "U+0422", "U+0423", "U+0424", "U+0425",
      "U+0426", "U+0427", "U+0428", "U+0429", "U+042A", "U+042B", "U+042C", "U+042D",
      "U+042E", "U+042F", "U+0460", "U+0462", "U+0464", "U+0466", "U+0468", "U+046A",
      "U+046C", "U+046E", "U+0470", "U+0472", "U+0474", "U+0476", "U+0478", "U+047A",
      "U+047C", "U+047E", "U+0480", "U+048A", "U+048C", "U+048E", "U+0490", "U+0492",
      "U+0494", "U+0496", "U+0498", "U+049A", "U+049C", "U+049E", "U+04A0", "U+04A2",
      "U+04A4", "U+04A6", "U+04A8", "U+04AA", "U+04AC", "U+04AE", "U+04B0", "U+04B2",
      "U+04B4", "U+04B6", "U+04B8", "U+04BA", "U+04BC", "U+04BE", "U+04C0", "U+04C1",
      "U+04C3", "U+04C5", "U+04C7", "U+04C9", "U+04CB", "U+04CD", "U+04D0", "U+04D2",
      "U+04D4", "U+04D6", "U+04D8", "U+04DA", "U+04DC", "U+04DE", "U+04E0", "U+04E2",
      "U+04E4", "U+04E6", "U+04E8", "U+04EA", "U+04EC", "U+04EE", "U+04F0", "U+04F2",
      "U+04F4", "U+04F6", "U+04F8", "U+04FA", "U+04FC", "U+04FE", "U+0500", "U+0502",
      "U+0504", "U+0506", "U+0508", "U+050A", "U+050C", "U+050E", "U+0510", "U+0512",
      "U+0514", "U+0516", "U+0518", "U+051A", "U+051C", "U+051E", "U+0520", "U+0522",
      "U+0524", "U+0526", "U+0528", "U+052A", "U+052C", "U+052E", "U+0531", "U+0532",
      "U+0533", "U+0534", "U+0535", "U+0536", "U+0537", "U+0538", "U+0539", "U+053A",
      "U+053B", "U+053C", "U+053D", "U+053E", "U+053F", "U+0540", "U+0541", "U+0542",
      "U+0543", "U+0544", "U+0545", "U+0546", "U+0547", "U+0548", "U+0549", "U+054A",
      "U+054B", "U+054C", "U+054D", "U+054E", "U+054F", "U+0550", "U+0551", "U+0552",
      "U+0553", "U+0554", "U+0555", "U+0556", "U+10A0", "U+10A1", "U+10A2", "U+10A3",
      "U+10A4", "U+10A5", "U+10A6", "U+10A7", "U+10A8", "U+10A9", "U+10AA", "U+10AB",
      "U+10AC", "U+10AD", "U+10AE", "U+10AF", "U+10B0", "U+10B1", "U+10B2", "U+10B3",
      "U+10B4", "U+10B5", "U+10B6", "U+10B7", "U+10B8", "U+10B9", "U+10BA", "U+10BB",
      "U+10BC", "U+10BD", "U+10BE", "U+10BF", "U+10C0", "U+10C1", "U+10C2", "U+10C3",
      "U+10C4", "U+10C5", "U+10C7", "U+10CD", "U+13A0", "U+13A1", "U+13A2", "U+13A3",
      "U+13A4", "U+13A5", "U+13A6", "U+13A7", "U+13A8", "U+13A9", "U+13AA", "U+13AB",
      "U+13AC", "U+13AD", "U+13AE", "U+13AF", "U+13B0", "U+13B1", "U+13B2", "U+13B3",
      "U+13B4", "U+13B5", "U+13B6", "U+13B7", "U+13B8", "U+13B9", "U+13BA", "U+13BB",
      "U+13BC", "U+13BD", "U+13BE", "U+13BF", "U+13C0", "U+13C1", "U+13C2", "U+13C3",
      "U+13C4", "U+13C5", "U+13C6", "U+13C7", "U+13C8", "U+13C9", "U+13CA", "U+13CB",
      "U+13CC", "U+13CD", "U+13CE", "U+13CF", "U+13D0", "U+13D1", "U+13D2", "U+13D3",
      "U+13D4", "U+13D5", "U+13D6", "U+13D7", "U+13D8", "U+13D9", "U+13DA", "U+13DB",
      "U+13DC", "U+13DD", "U+13DE", "U+13DF", "U+13E0", "U+13E1", "U+13E2", "U+13E3",
      "U+13E4", "U+13E5", "U+13E6", "U+13E7", "U+13E8", "U+13E9", "U+13EA", "U+13EB",
      "U+13EC", "U+13ED", "U+13EE", "U+13EF", "U+13F0", "U+13F1", "U+13F2", "U+13F3",
      "U+13F4", "U+13F5", "U+1C90", "U+1C91", "U+1C92", "U+1C93", "U+1C94", "U+1C95",
      "U+1C96", "U+1C97", "U+1C98", "U+1C99", "U+1C9A", "U+1C9B", "U+1C9C", "U+1C9D",
      "U+1C9E", "U+1C9F", "U+1CA0", "U+1CA1", "U+1CA2", "U+1CA3", "U+1CA4", "U+1CA5",
      "U+1CA6", "U+1CA7", "U+1CA8", "U+1CA9", "U+1CAA", "U+1CAB", "U+1CAC", "U+1CAD",
      "U+1CAE", "U+1CAF", "U+1CB0", "U+1CB1", "U+1CB2", "U+1CB3", "U+1CB4", "U+1CB5",
      "U+1CB6", "U+1CB7", "U+1CB8", "U+1CB9", "U+1CBA", "U+1CBD", "U+1CBE", "U+1CBF",
      "U+1E00", "U+1E02", "U+1E04", "U+1E06", "U+1E08", "U+1E0A", "U+1E0C", "U+1E0E",
      "U+1E10", "U+1E12", "U+1E14", "U+1E16", "U+1E18", "U+1E1A", "U+1E1C", "U+1E1E",
      "U+1E20", "U+1E22", "U+1E24", "U+1E26", "U+1E28", "U+1E2A", "U+1E2C", "U+1E2E",
      "U+1E30", "U+1E32", "U+1E34", "U+1E36", "U+1E38", "U+1E3A", "U+1E3C", "U+1E3E",
      "U+1E40", "U+1E42", "U+1E44", "U+1E46", "U+1E48", "U+1E4A", "U+1E4C", "U+1E4E",
      "U+1E50", "U+1E52", "U+1E54", "U+1E56", "U+1E58", "U+1E5A", "U+1E5C", "U+1E5E",
      "U+1E60", "U+1E62", "U+1E64", "U+1E66", "U+1E68", "U+1E6A", "U+1E6C", "U+1E6E",
      "U+1E70", "U+1E72", "U+1E74", "U+1E76", "U+1E78", "U+1E7A", "U+1E7C", "U+1E7E",
      "U+1E80", "U+1E82", "U+1E84", "U+1E86", "U+1E88", "U+1E8A", "U+1E8C", "U+1E8E",
      "U+1E90", "U+1E92", "U+1E94", "U+1E9E", "U+1EA0", "U+1EA2", "U+1EA4", "U+1EA6",
      "U+1EA8", "U+1EAA", "U+1EAC", "U+1EAE", "U+1EB0", "U+1EB2", "U+1EB4", "U+1EB6",
      "U+1EB8", "U+1EBA", "U+1EBC", "U+1EBE", "U+1EC0", "U+1EC2", "U+1EC4", "U+1EC6",
      "U+1EC8", "U+1ECA", "U+1ECC", "U+1ECE", "U+1ED0", "U+1ED2", "U+1ED4", "U+1ED6",
      "U+1ED8", "U+1EDA", "U+1EDC", "U+1EDE", "U+1EE0", "U+1EE2", "U+1EE4", "U+1EE6",
      "U+1EE8", "U+1EEA", "U+1EEC", "U+1EEE", "U+1EF0", "U+1EF2", "U+1EF4", "U+1EF6",
      "U+1EF8", "U+1EFA", "U+1EFC", "U+1EFE", "U+1F08", "U+1F09", "U+1F0A", "U+1F0B",
      "U+1F0C", "U+1F0D", "U+1F0E", "U+1F0F", "U+1F18", "U+1F19", "U+1F1A", "U+1F1B",
      "U+1F1C", "U+1F1D", "U+1F28", "U+1F29", "U+1F2A", "U+1F2B", "U+1F2C", "U+1F2D",
      "U+1F2E", "U+1F2F", "U+1F38", "U+1F39", "U+1F3A", "U+1F3B", "U+1F3C", "U+1F3D",
      "U+1F3E", "U+1F3F", "U+1F48", "U+1F49", "U+1F4A", "U+1F4B", "U+1F4C", "U+1F4D",
      "U+1F59", "U+1F5B", "U+1F5D", "U+1F5F", "U+1F68", "U+1F69", "U+1F6A", "U+1F6B",
      "U+1F6C", "U+1F6D", "U+1F6E", "U+1F6F", "U+1F88", "U+1F89", "U+1F8A", "U+1F8B",
      "U+1F8C", "U+1F8D", "U+1F8E", "U+1F8F", "U+1F98", "U+1F99", "U+1F9A", "U+1F9B",
      "U+1F9C", "U+1F9D", "U+1F9E", "U+1F9F", "U+1FA8", "U+1FA9", "U+1FAA", "U+1FAB",
      "U+1FAC", "U+1FAD", "U+1FAE", "U+1FAF", "U+1FB8", "U+1FB9", "U+1FBA", "U+1FBB",
      "U+1FBC", "U+1FC8", "U+1FC9", "U+1FCA", "U+1FCB", "U+1FCC", "U+1FD8", "U+1FD9",
      "U+1FDA", "U+1FDB", "U+1FE8", "U+1FE9", "U+1FEA", "U+1FEB", "U+1FEC", "U+1FF8",
      "U+1FF9", "U+1FFA", "U+1FFB", "U+1FFC", "U+2126", "U+212A", "U+212B", "U+2132",
      "U+2160", "U+2161", "U+2162", "U+2163", "U+2164", "U+2165", "U+2166", "U+2167",
      "U+2168", "U+2169", "U+216A", "U+216B", "U+216C", "U+216D", "U+216E", "U+216F",
      "U+2183", "U+24B6", "U+24B7", "U+24B8", "U+24B9", "U+24BA", "U+24BB", "U+24BC",
      "U+24BD", "U+24BE", "U+24BF", "U+24C0", "U+24C1", "U+24C2", "U+24C3", "U+24C4",
      "U+24C5", "U+24C6", "U+24C7", "U+24C8", "U+24C9", "U+24CA", "U+24CB", "U+24CC",
      "U+24CD", "U+24CE", "U+24CF", "U+2C00", "U+2C01", "U+2C02", "U+2C03", "U+2C04",
      "U+2C05", "U+2C06", "U+2C07", "U+2C08", "U+2C09", "U+2C0A", "U+2C0B", "U+2C0C",
      "U+2C0D", "U+2C0E", "U+2C0F", "U+2C10", "U+2C11", "U+2C12", "U+2C13", "U+2C14",
      "U+2C15", "U+2C16", "U+2C17", "U+2C18", "U+2C19", "U+2C1A", "U+2C1B", "U+2C1C",
      "U+2C1D", "U+2C1E", "U+2C1F", "U+2C20", "U+2C21", "U+2C22", "U+2C23", "U+2C24",
      "U+2C25", "U+2C26", "U+2C27", "U+2C28", "U+2C29", "U+2C2A", "U+2C2B", "U+2C2C",
      "U+2C2D", "U+2C2E", "U+2C2F", "U+2C60", "U+2C62", "U+2C63", "U+2C64", "U+2C67",
      "U+2C69", "U+2C6B", "U+2C6D", "U+2C6E", "U+2C6F", "U+2C70", "U+2C72", "U+2C75",
      "U+2C7E", "U+2C7F", "U+2C80", "U+2C82", "U+2C84", "U+2C86", "U+2C88", "U+2C8A",
      "U+2C8C", "U+2C8E", "U+2C90", "U+2C92", "U+2C94", "U+2C96", "U+2C98", "U+2C9A",
      "U+2C9C", "U+2C9E", "U+2CA0", "U+2CA2", "U+2CA4", "U+2CA6", "U+2CA8", "U+2CAA",
      "U+2CAC", "U+2CAE", "U+2CB0", "U+2CB2", "U+2CB4", "U+2CB6", "U+2CB8", "U+2CBA",
      "U+2CBC", "U+2CBE", "U+2CC0", "U+2CC2", "U+2CC4", "U+2CC6", "U+2CC8", "U+2CCA",
      "U+2CCC", "U+2CCE", "U+2CD0", "U+2CD2", "U+2CD4", "U+2CD6", "U+2CD8", "U+2CDA",
      "U+2CDC", "U+2CDE", "U+2CE0", "U+2CE2", "U+2CEB", "U+2CED", "U+2CF2", "U+A640",
      "U+A642", "U+A644", "U+A646", "U+A648", "U+A64A", "U+A64C", "U+A64E", "U+A650",
      "U+A652", "U+A654", "U+A656", "U+A658", "U+A65A", "U+A65C", "U+A65E", "U+A660",
      "U+A662", "U+A664", "U+A666", "U+A668", "U+A66A", "U+A66C", "U+A680", "U+A682",
      "U+A684", "U+A686", "U+A688", "U+A68A", "U+A68C", "U+A68E", "U+A690", "U+A692",
      "U+A694", "U+A696", "U+A698", "U+A69A", "U+A722", "U+A724", "U+A726", "U+A728",
      "U+A72A", "U+A72C", "U+A72E", "U+A732", "U+A734", "U+A736", "U+A738", "U+A73A",
      "U+A73C", "U+A73E", "U+A740", "U+A742", "U+A744", "U+A746", "U+A748", "U+A74A",
      "U+A74C", "U+A74E", "U+A750", "U+A752", "U+A754", "U+A756", "U+A758", "U+A75A",
      "U+A75C", "U+A75E", "U+A760", "U+A762", "U+A764", "U+A766", "U+A768", "U+A76A",
      "U+A76C", "U+A76E", "U+A779", "U+A77B", "U+A77D", "U+A77E", "U+A780", "U+A782",
      "U+A784", "U+A786", "U+A78B", "U+A78D", "U+A790", "U+A792", "U+A796", "U+A798",
      "U+A79A", "U+A79C", "U+A79E", "U+A7A0", "U+A7A2", "U+A7A4", "U+A7A6", "U+A7A8",
      "U+A7AA", "U+A7AB", "U+A7AC", "U+A7AD", "U+A7AE", "U+A7B0", "U+A7B1", "U+A7B2",
      "U+A7B3", "U+A7B4", "U+A7B6", "U+A7B8", "U+A7BA", "U+A7BC", "U+A7BE", "U+A7C0",
      "U+A7C2", "U+A7C4", "U+A7C5", "U+A7C6", "U+A7C7", "U+A7C9", "U+A7D0", "U+A7D6",
      "U+A7D8", "U+A7F5", "U+FF21", "U+FF22", "U+FF23", "U+FF24", "U+FF25", "U+FF26",
      "U+FF27", "U+FF28", "U+FF29", "U+FF2A", "U+FF2B", "U+FF2C", "U+FF2D", "U+FF2E",
      "U+FF2F", "U+FF30", "U+FF31", "U+FF32", "U+FF33", "U+FF34", "U+FF35", "U+FF36",
      "U+FF37", "U+FF38", "U+FF39", "U+FF3A", "U+10400", "U+10401", "U+10402", "U+10403",
      "U+10404", "U+10405", "U+10406", "U+10407", "U+10408", "U+10409", "U+1040A", "U+1040B",
      "U+1040C", "U+1040D", "U+1040E", "U+1040F", "U+10410", "U+10411", "U+10412", "U+10413",
      "U+10414", "U+10415", "U+10416", "U+10417", "U+10418", "U+10419", "U+1041A", "U+1041B",
      "U+1041C", "U+1041D", "U+1041E", "U+1041F", "U+10420", "U+10421", "U+10422", "U+10423",
      "U+10424", "U+10425", "U+10426", "U+10427", "U+104B0", "U+104B1", "U+104B2", "U+104B3",
      "U+104B4", "U+104B5", "U+104B6", "U+104B7", "U+104B8", "U+104B9", "U+104BA", "U+104BB",
      "U+104BC", "U+104BD", "U+104BE", "U+104BF", "U+104C0", "U+104C1", "U+104C2", "U+104C3",
      "U+104C4", "U+104C5", "U+104C6", "U+104C7", "U+104C8", "U+104C9", "U+104CA", "U+104CB",
      "U+104CC", "U+104CD", "U+104CE", "U+104CF", "U+104D0", "U+104D1", "U+104D2", "U+104D3",
      "U+10570", "U+10571", "U+10572", "U+10573", "U+10574", "U+10575", "U+10576", "U+10577",
      "U+10578", "U+10579", "U+1057A", "U+1057C", "U+1057D", "U+1057E", "U+1057F", "U+10580",
      "U+10581", "U+10582", "U+10583", "U+10584", "U+10585", "U+10586", "U+10587", "U+10588",
      "U+10589", "U+1058A", "U+1058C", "U+1058D", "U+1058E", "U+1058F", "U+10590", "U+10591",
      "U+10592", "U+10594", "U+10595", "U+10C80", "U+10C81", "U+10C82", "U+10C83", "U+10C84",
      "U+10C85", "U+10C86", "U+10C87", "U+10C88", "U+10C89", "U+10C8A", "U+10C8B", "U+10C8C",
      "U+10C8D", "U+10C8E", "U+10C8F", "U+10C90", "U+10C91", "U+10C92", "U+10C93", "U+10C94",
      "U+10C95", "U+10C96", "U+10C97", "U+10C98", "U+10C99", "U+10C9A", "U+10C9B", "U+10C9C",
      "U+10C9D", "U+10C9E", "U+10C9F", "U+10CA0", "U+10CA1", "U+10CA2", "U+10CA3", "U+10CA4",
      "U+10CA5", "U+10CA6", "U+10CA7", "U+10CA8", "U+10CA9", "U+10CAA", "U+10CAB", "U+10CAC",
      "U+10CAD", "U+10CAE", "U+10CAF", "U+10CB0", "U+10CB1", "U+10CB2", "U+118A0", "U+118A1",
      "U+118A2", "U+118A3", "U+118A4", "U+118A5", "U+118A6", "U+118A7", "U+118A8", "U+118A9",
      "U+118AA", "U+118AB", "U+118AC", "U+118AD", "U+118AE", "U+118AF", "U+118B0", "U+118B1",
      "U+118B2", "U+118B3", "U+118B4", "U+118B5", "U+118B6", "U+118B7", "U+118B8", "U+118B9",
      "U+118BA", "U+118BB", "U+118BC", "U+118BD", "U+118BE", "U+118BF", "U+16E40", "U+16E41",
      "U+16E42", "U+16E43", "U+16E44", "U+16E45", "U+16E46", "U+16E47", "U+16E48", "U+16E49",
      "U+16E4A", "U+16E4B", "U+16E4C", "U+16E4D", "U+16E4E", "U+16E4F", "U+16E50", "U+16E51",
      "U+16E52", "U+16E53", "U+16E54", "U+16E55", "U+16E56", "U+16E57", "U+16E58", "U+16E59",
      "U+16E5A", "U+16E5B", "U+16E5C", "U+16E5D", "U+16E5E", "U+16E5F", "U+1E900", "U+1E901",
      "U+1E902", "U+1E903", "U+1E904", "U+1E905", "U+1E906", "U+1E907", "U+1E908", "U+1E909",
      "U+1E90A", "U+1E90B", "U+1E90C", "U+1E90D", "U+1E90E", "U+1E90F", "U+1E910", "U+1E911",
      "U+1E912", "U+1E913", "U+1E914", "U+1E915", "U+1E916", "U+1E917", "U+1E918", "U+1E919",
      "U+1E91A", "U+1E91B", "U+1E91C", "U+1E91D", "U+1E91E", "U+1E91F", "U+1E920", "U+1E921">>

\* what str.lower() changes them to, place by place
LowerChars ==
    <<"a", "b", "c", "d", "e", "f", "g", "h",
      "i", "j", "k", "l", "m", "n", "o", "p",
      "q", "r", "s", "t", "u", "v", "w", "x",
      "y", "z", "à", "á", "â", "ã", "ä", "å",
      "æ", "ç", "è", "é", "ê", "ë", "ì", "í",
      "î", "ï", "ð", "ñ", "ò", "ó", "ô", "õ",
      "ö", "ø", "ù", "ú", "û", "ü", "ý", "þ",
      "U+0101", "U+0103", "U+0105", "U+0107", "U+0109", "U+010B", "U+010D", "U+010F",
      "U+0111", "U+0113", "U+0115", "U+0117", "U+0119", "U+011B", "U+011D", "U+011F",
      "U+0121", "U+0123", "U+0125", "U+0127", "U+0129", "U+012B", "U+012D", "U+012F",
      "U+0133", "U+0135", "U+0137", "U+013A", "U+013C", "U+013E", "U+0140", "U+0142",
      "U+0144", "U+0146", "U+0148", "U+014B", "U+014D", "U+014F", "U+0151", "U+0153",
      "U+0155", "U+0157", "U+0159", "U+015B", "U+015D", "U+015F", "U+0161", "U+0163",
      "U+0165", "U+0167", "U+0169", "U+016B", "U+016D", "U+016F", "U+0171", "U+0173",
      "U+0175", "U+0177", "ÿ", "U+017A", "U+017C", "U+017E", "U+0253", "U+0183",
      "U+0185", "U+0254", "U+0188", "U+0256", "U+0257", "U+018C", "U+01DD", "U+0259",
      "U+025B", "U+0192", "U+0260", "U+0263", "U+0269", "U+0268", "U+0199", "U+026F",
      "U+0272", "U+0275", "U+01A1", "U+01A3", "U+01A5", "U+0280", "U+01A8", "U+0283",
      "U+01AD", "U+0288", "U+01B0", "U+028A", "U+028B", "U+01B4", "U+01B6", "U+0292",
      "U+01B9", "U+01BD", "U+01C6", "U+01C6", "U+01C9", "U+01C9", "U+01CC", "U+01CC",
      "U+01CE", "U+01D0", "U+01D2", "U+01D4", "U+01D6", "U+01D8", "U+01DA", "U+01DC",
      "U+01DF", "U+01E1", "U+01E3", "U+01E5", "U+01E7", "U+01E9", "U+01EB", "U+01ED",
      "U+01EF", "U+01F3", "U+01F3", "U+01F5", "U+0195", "U+01BF", "U+01F9", "U+01FB",
      "U+01FD", "U+01FF", "U+0201", "U+0203", "U+0205", "U+0207", "U+0209", "U+020B",
      "U+020D", "U+020F", "U+0211", "U+0213", "U+0215", "U+0217", "U+0219", "U+021B",
      "U+021D", "U+021F", "U+019E", "U+0223", "U+0225", "U+0227", "U+0229", "U+022B",
      "U+022D", "U+022F", "U+0231", "U+0233", "U+2C65", "U+023C", "U+019A", "U+2C66",
      "U+0242", "U+0180", "U+0289", "U+028C", "U+0247", "U+0249", "U+024B", "U+024D",
      "U+024F", "U+0371", "U+0373", "U+0377", "U+03F3", "U+03AC", "U+03AD", "U+03AE",
      "U+03AF", "U+03CC", "U+03CD", "U+03CE", "U+03B1", "U+03B2", "U+03B3", "U+03B4",
      "U+03B5", "U+03B6", "U+03B7", "U+03B8", "U+03B9", "U+03BA", "U+03BB", "U+03BC",
      "U+03BD", "U+03BE", "U+03BF", "U+03C0", "U+03C1", "U+03C3", "U+03C4", "U+03C5",
      "U+03C6", "U+03C7", "U+03C8", "U+03C9", "U+03CA", "U+03CB", "U+03D7", "U+03D9",
      "U+03DB", "U+03DD", "U+03DF", "U+03E1", "U+03E3", "U+03E5", "U+03E7", "U+03E9",
      "U+03EB", "U+03ED", "U+03EF", "U+03B8", "U+03F8", "U+03F2", "U+03FB", "U+037B",
      "U+037C", "U+037D", "U+0450", "U+0451", "U+0452", "U+0453", "U+0454", "U+0455",
      "U+0456", "U+0457", "U+0458", "U+0459", "U+045A", "U+045B", "U+045C", "U+045D",
      "U+045E", "U+045F", "U+0430", "U+0431", "U+0432", "U+0433", "U+0434", "U+0435",
      "U+0436", "U+0437", "U+0438", "U+0439", "U+043A", "U+043B", "U+043C", "U+043D",
      "U+043E", "U+043F", "U+0440", "U+0441", "U+0442", "U+0443", "U+0444", "U+0445",
      "U+0446", "U+0447", "U+0448", "U+0449", "U+044A", "U+044B", "U+044C", "U+044D",
      "U+044E", "U+044F", "U+0461", "U+0463", "U+0465", "U+0467", "U+0469", "U+046B",
      "U+046D", "U+046F", "U+0471", "U+0473", "U+0475", "U+0477", "U+0479", "U+047B",
      "U+047D", "U+047F", "U+0481", "U+048B", "U+048D", "U+048F", "U+0491", "U+0493",
      "U+0495", "U+0497", "U+0499", "U+049B", "U+049D", "U+049F", "U+04A1", "U+04A3",
      "U+04A5", "U+04A7", "U+04A9", "U+04AB", "U+04AD", "U+04AF", "U+04B1", "U+04B3",
      "U+04B5", "U+04B7", "U+04B9", "U+04BB", "U+04BD", "U+04BF", "U+04CF", "U+04C2",
      "U+04C4", "U+04C6", "U+04C8", "U+04CA", "U+04CC", "U+04CE", "U+04D1", "U+04D3",
      "U+04D5", "U+04D7", "U+04D9", "U+04DB", "U+04DD", "U+04DF", "U+04E1", "U+04E3",
      "U+04E5", "U+04E7", "U+04E9", "U+04EB", "U+04ED", "U+04EF", "U+04F1", "U+04F3",
      "U+04F5", "U+04F7", "U+04F9", "U+04FB", "U+04FD", "U+04FF", "U+0501", "U+0503",
      "U+0505", "U+0507", "U+0509", "U+050B", "U+050D", "U+050F", "U+0511", "U+0513",
      "U+0515", "U+0517", "U+0519", "U+051B", "U+051D", "U+051F", "U+0521", "U+0523",
      "U+0525", "U+0527", "U+0529", "U+052B", "U+052D", "U+052F", "U+0561", "U+0562",
      "U+0563", "U+0564", "U+0565", "U+0566", "U+0567", "U+0568", "U+0569", "U+056A",
      "U+056B", "U+056C", "U+056D", "U+056E", "U+056F", "U+0570", "U+0571", "U+0572",
      "U+0573", "U+0574", "U+0575", "U+0576", "U+0577", "U+0578", "U+0579", "U+057A",
      "U+057B", "U+057C", "U+057D", "U+057E", "U+057F", "U+0580", "U+0581", "U+0582",
      "U+0583", "U+0584", "U+0585", "U+0586", "U+2D00", "U+2D01", "U+2D02", "U+2D03",
      "U+2D04", "U+2D05", "U+2D06", "U+2D07", "U+2D08", "U+2D09", "U+2D0A", "U+2D0B",
      "U+2D0C", "U+2D0D", "U+2D0E", "U+2D0F", "U+2D10", "U+2D11", "U+2D12", "U+2D13",
      "U+2D14", "U+2D15", "U+2D16", "U+2D17", "U+2D18", "U+2D19", "U+2D1A", "U+2D1B",
      "U+2D1C", "U+2D1D", "U+2D1E", "U+2D1F", "U+2D20", "U+2D21", "U+2D22", "U+2D23",
      "U+2D24", "U+2D25", "U+2D27", "U+2D2D", "U+AB70", "U+AB71", "U+AB72", "U+AB73",
      "U+AB74", "U+AB75", "U+AB76", "U+AB77", "U+AB78", "U+AB79", "U+AB7A", "U+AB7B",
      "U+AB7C", "U+AB7D", "U+AB7E", "U+AB7F", "U+AB80", "U+AB81", "U+AB82", "U+AB83",
      "U+AB84", "U+AB85", "U+AB86", "U+AB87", "U+AB88", "U+AB89", "U+AB8A", "U+AB8B",
      "U+AB8C", "U+AB8D", "U+AB8E", "U+AB8F", "U+AB90", "U+AB91", "U+AB92", "U+AB93",
      "U+AB94", "U+AB95", "U+AB96", "U+AB97", "U+AB98", "U+AB99", "U+AB9A", "U+AB9B",
      "U+AB9C", "U+AB9D", "U+AB9E", "U+AB9F", "U+ABA0", "U+ABA1", "U+ABA2", "U+ABA3",
      "U+ABA4", "U+ABA5", "U+ABA6", "U+ABA7", "U+ABA8", "U+ABA9", "U+ABAA", "U+ABAB",
      "U+ABAC", "U+ABAD", "U+ABAE", "U+ABAF", "U+ABB0", "U+ABB1", "U+ABB2", "U+ABB3",
      "U+ABB4", "U+ABB5", "U+ABB6", "U+ABB7", "U+ABB8", "U+ABB9", "U+ABBA", "U+ABBB",
      "U+ABBC", "U+ABBD", "U+ABBE", "U+ABBF", "U+13F8", "U+13F9", "U+13FA", "U+13FB",
      "U+13FC", "U+13FD", "U+10D0", "U+10D1", "U+10D2", "U+10D3", "U+10D4", "U+10D5",
      "U+10D6", "U+10D7", "U+10D8", "U+10D9", "U+10DA", "U+10DB", "U+10DC", "U+10DD",
      "U+10DE", "U+10DF", "U+10E0", "U+10E1", "U+10E2", "U+10E3", "U+10E4", "U+10E5",
      "U+10E6", "U+10E7", "U+10E8", "U+10E9", "U+10EA", "U+10EB", "U+10EC", "U+10ED",
      "U+10EE", "U+10EF", "U+10F0", "U+10F1", "U+10F2", "U+10F3", "U+10F4", "U+10F5",
      "U+10F6", "U+10F7", "U+10F8", "U+10F9", "U+10FA", "U+10FD", "U+10FE", "U+10FF",
      "U+1E01", "U+1E03", "U+1E05", "U+1E07", "U+1E09", "U+1E0B", "U+1E0D", "U+1E0F",
      "U+1E11", "U+1E13", "U+1E15", "U+1E17", "U+1E19", "U+1E1B", "U+1E1D", "U+1E1F",
      "U+1E21", "U+1E23", "U+1E25", "U+1E27", "U+1E29", "U+1E2B", "U+1E2D", "U+1E2F",
      "U+1E31", "U+1E33", "U+1E35", "U+1E37", "U+1E39", "U+1E3B", "U+1E3D", "U+1E3F",
      "U+1E41", "U+1E43", "U+1E45", "U+1E47", "U+1E49", "U+1E4B", "U+1E4D", "U+1E4F",
      "U+1E51", "U+1E53", "U+1E55", "U+1E57", "U+1E59", "U+1E5B", "U+1E5D", "U+1E5F",
      "U+1E61", "U+1E63", "U+1E65", "U+1E67", "U+1E69", "U+1E6B", "U+1E6D", "U+1E6F",
      "U+1E71", "U+1E73", "U+1E75", "U+1E77", "U+1E79", "U+1E7B", "U+1E7D", "U+1E7F",
      "U+1E81", "U+1E83", "U+1E85", "U+1E87", "U+1E89", "U+1E8B", "U+1E8D", "U+1E8F",
      "U+1E91", "U+1E93", "U+1E95", "ß", "U+1EA1", "U+1EA3", "U+1EA5", "U+1EA7",
      "U+1EA9", "U+1EAB", "U+1EAD", "U+1EAF", "U+1EB1", "U+1EB3", "U+1EB5", "U+1EB7",
      "U+1EB9", "U+1EBB", "U+1EBD", "U+1EBF", "U+1EC1", "U+1EC3", "U+1EC5", "U+1EC7",
      "U+1EC9", "U+1ECB", "U+1ECD", "U+1ECF", "U+1ED1", "U+1ED3", "U+1ED5", "U+1ED7",
      "U+1ED9", "U+1EDB", "U+1EDD", "U+1EDF", "U+1EE1", "U+1EE3", "U+1EE5", "U+1EE7",
      "U+1EE9", "U+1EEB", "U+1EED", "U+1EEF", "U+1EF1", "U+1EF3", "U+1EF5", "U+1EF7",
      "U+1EF9", "U+1EFB", "U+1EFD", "U+1EFF", "U+1F00", "U+1F01", "U+1F02", "U+1F03",
      "U+1F04", "U+1F05", "U+1F06", "U+1F07", "U+1F10", "U+1F11", "U+1F12", "U+1F13",
      "U+1F14", "U+1F15", "U+1F20", "U+1F21", "U+1F22", "U+1F23", "U+1F24", "U+1F25",
      "U+1F26", "U+1F27", "U+1F30", "U+1F31", "U+1F32", "U+1F33", "U+1F34", "U+1F35",
      "U+1F36", "U+1F37", "U+1F40", "U+1F41", "U+1F42", "U+1F43", "U+1F44", "U+1F45",
      "U+1F51", "U+1F53", "U+1F55", "U+1F57", "U+1F60", "U+1F61", "U+1F62", "U+1F63",
      "U+1F64", "U+1F65", "U+1F66", "U+1F67", "U+1F80", "U+1F81", "U+1F82", "U+1F83",
      "U+1F84", "U+1F85", "U+1F86", "U+1F87", "U+1F90", "U+1F91", "U+1F92", "U+1F93",
      "U+1F94", "U+1F95", "U+1F96", "U+1F97", "U+1FA0", "U+1FA1", "U+1FA2", "U+1FA3",
      "U+1FA4", "U+1FA5", "U+1FA6", "U+1FA7", "U+1FB0", "U+1FB1", "U+1F70", "U+1F71",
      "U+1FB3", "U+1F72", "U+1F73", "U+1F74", "U+1F75", "U+1FC3", "U+1FD0", "U+1FD1",
      "U+1F76", "U+1F77", "U+1FE0", "U+1FE1", "U+1F7A", "U+1F7B", "U+1FE5", "U+1F78",
      "U+1F79", "U+1F7C", "U+1F7D", "U+1FF3", "U+03C9", "k", "å", "U+214E",
      "U+2170", "U+2171", "U+2172", "U+2173", "U+2174", "U+2175", "U+2176", "U+2177",
      "U+2178", "U+2179", "U+217A", "U+217B", "U+217C", "U+217D", "U+217E", "U+217F",
      "U+2184", "U+24D0", "U+24D1", "U+24D2", "U+24D3", "U+24D4", "U+24D5", "U+24D6",
      "U+24D7", "U+24D8", "U+24D9", "U+24DA", "U+24DB", "U+24DC", "U+24DD", "U+24DE",
      "U+24DF", "U+24E0", "U+24E1", "U+24E2", "U+24E3", "U+24E4", "U+24E5", "U+24E6",
      "U+24E7", "U+24E8", "U+24E9", "U+2C30", "U+2C31", "U+2C32", "U+2C33", "U+2C34",
      "U+2C35", "U+2C36", "U+2C37", "U+2C38", "U+2C39", "U+2C3A", "U+2C3B", "U+2C3C",
      "U+2C3D", "U+2C3E", "U+2C3F", "U+2C40", "U+2C41", "U+2C42", "U+2C43", "U+2C44",
      "U+2C45", "U+2C46", "U+2C47", "U+2C48", "U+2C49", "U+2C4A", "U+2C4B", "U+2C4C",
      "U+2C4D", "U+2C4E", "U+2C4F", "U+2C50", "U+2C51", "U+2C52", "U+2C53", "U+2C54",
      "U+2C55", "U+2C56", "U+2C57", "U+2C58", "U+2C59", "U+2C5A", "U+2C5B", "U+2C5C",
      "U+2C5D", "U+2C5E", "U+2C5F", "U+2C61", "U+026B", "U+1D7D", "U+027D", "U+2C68",
      "U+2C6A", "U+2C6C", "U+0251", "U+0271", "U+0250", "U+0252", "U+2C73", "U+2C76",
      "U+023F", "U+0240", "U+2C81", "U+2C83", "U+2C85", "U+2C87", "U+2C89", "U+2C8B",
      "U+2C8D", "U+2C8F", "U+2C91", "U+2C93", "U+2C95", "U+2C97", "U+2C99", "U+2C9B",
      "U+2C9D", "U+2C9F", "U+2CA1", "U+2CA3", "U+2CA5", "U+2CA7", "U+2CA9", "U+2CAB",
      "U+2CAD", "U+2CAF", "U+2CB1", "U+2CB3", "U+2CB5", "U+2CB7", "U+2CB9", "U+2CBB",
      "U+2CBD", "U+2CBF", "U+2CC1", "U+2CC3", "U+2CC5", "U+2CC7", "U+2CC9", "U+2CCB",
      "U+2CCD", "U+2CCF", "U+2CD1", "U+2CD3", "U+2CD5", "U+2CD7", "U+2CD9", "U+2CDB",
      "U+2CDD", "U+2CDF", "U+2CE1", "U+2CE3", "U+2CEC", "U+2CEE", "U+2CF3", "U+A641",
      "U+A643", "U+A645", "U+A647", "U+A649", "U+A64B", "U+A64D", "U+A64F", "U+A651",
      "U+A653", "U+A655", "U+A657", "U+A659", "U+A65B", "U+A65D", "U+A65F", "U+A661",
      "U+A663", "U+A665", "U+A667", "U+A669", "U+A66B", "U+A66D", "U+A681", "U+A683",
      "U+A685", "U+A687", "U+A689", "U+A68B", "U+A68D", "U+A68F", "U+A691", "U+A693",
      "U+A695", "U+A697", "U+A699", "U+A69B", "U+A723", "U+A725", "U+A727", "U+A729",
      "U+A72B", "U+A72D", "U+A72F", "U+A733", "U+A735", "U+A737", "U+A739", "U+A73B",
      "U+A73D", "U+A73F", "U+A741", "U+A743", "U+A745", "U+A747", "U+A749", "U+A74B",
      "U+A74D", "U+A74F", "U+A751", "U+A753", "U+A755", "U+A757", "U+A759", "U+A75B",
      "U+A75D", "U+A75F", "U+A761", "U+A763", "U+A765", "U+A767", "U+A769", "U+A76B",
      "U+A76D", "U+A76F", "U+A77A", "U+A77C", "U+1D79", "U+A77F", "U+A781", "U+A783",
      "U+A785", "U+A787", "U+A78C", "U+0265", "U+A791", "U+A793", "U+A797", "U+A799",
      "U+A79B", "U+A79D", "U+A79F", "U+A7A1", "U+A7A3", "U+A7A5", "U+A7A7", "U+A7A9",
      "U+0266", "U+025C", "U+0261", "U+026C", "U+026A", "U+029E", "U+0287", "U+029D",
      "U+AB53", "U+A7B5", "U+A7B7", "U+A7B9", "U+A7BB", "U+A7BD", "U+A7BF", "U+A7C1",
      "U+A7C3", "U+A794", "U+0282", "U+1D8E", "U+A7C8", "U+A7CA", "U+A7D1", "U+A7D7",
      "U+A7D9", "U+A7F6", "U+FF41", "U+FF42", "U+FF43", "U+FF44", "U+FF45", "U+FF46",
      "U+FF47", "U+FF48", "U+FF49", "U+FF4A", "U+FF4B", "U+FF4C", "U+FF4D", "U+FF4E",
      "U+FF4F", "U+FF50", "U+FF51", "U+FF52", "U+FF53", "U+FF54", "U+FF55", "U+FF56",
      "U+FF57", "U+FF58", "U+FF59", "U+FF5A", "U+10428", "U+10429", "U+1042A", "U+1042B",
      "U+1042C", "U+1042D", "U+1042E", "U+1042F", "U+10430", "U+10431", "U+10432", "U+10433",
      "U+10434", "U+10435", "U+10436", "U+10437", "U+10438", "U+10439", "U+1043A", "U+1043B",
      "U+1043C", "U+1043D", "U+1043E", "U+1043F", "U+10440", "U+10441", "U+10442", "U+10443",
      "U+10444", "U+10445", "U+10446", "U+10447", "U+10448", "U+10449", "U+1044A", "U+1044B",
      "U+1044C", "U+1044D", "U+1044E", "U+1044F", "U+104D8", "U+104D9", "U+104DA", "U+104DB",
      "U+104DC", "U+104DD", "U+104DE", "U+104DF", "U+104E0", "U+104E1", "U+104E2", "U+104E3",
      "U+104E4", "U+104E5", "U+104E6", "U+104E7", "U+104E8", "U+104E9", "U+104EA", "U+104EB",
      "U+104EC", "U+104ED", "U+104EE", "U+104EF", "U+104F0", "U+104F1", "U+104F2", "U+104F3",
      "U+104F4", "U+104F5", "U+104F6", "U+104F7", "U+104F8", "U+104F9", "U+104FA", "U+104FB",
      "U+10597", "U+10598", "U+10599", "U+1059A", "U+1059B", "U+1059C", "U+1059D", "U+1059E",
      "U+1059F", "U+105A0", "U+105A1", "U+105A3", "U+105A4", "U+105A5", "U+105A6", "U+105A7",
      "U+105A8", "U+105A9", "U+105AA", "U+105AB", "U+105AC", "U+105AD", "U+105AE", "U+105AF",
      "U+105B0", "U+105B1", "U+105B3", "U+105B4", "U+105B5", "U+105B6", "U+105B7", "U+105B8",
      "U+105B9", "U+105BB", "U+105BC", "U+10CC0", "U+10CC1", "U+10CC2", "U+10CC3", "U+10CC4",
      "U+10CC5", "U+10CC6", "U+10CC7", "U+10CC8", "U+10CC9", "U+10CCA", "U+10CCB", "U+10CCC",
      "U+10CCD", "U+10CCE", "U+10CCF", "U+10CD0", "U+10CD1", "U+10CD2", "U+10CD3", "U+10CD4",
      "U+10CD5", "U+10CD6", "U+10CD7", "U+10CD8", "U+10CD9", "U+10CDA", "U+10CDB", "U+10CDC",
      "U+10CDD", "U+10CDE", "U+10CDF", "U+10CE0", "U+10CE1", "U+10CE2", "U+10CE3", "U+10CE4",
      "U+10CE5", "U+10CE6", "U+10CE7", "U+10CE8", "U+10CE9", "U+10CEA", "U+10CEB", "U+10CEC",
      "U+10CED", "U+10CEE", "U+10CEF", "U+10CF0", "U+10CF1", "U+10CF2", "U+118C0", "U+118C1",
      "U+118C2", "U+118C3", "U+118C4", "U+118C5", "U+118C6", "U+118C7", "U+118C8", "U+118C9",
      "U+118CA", "U+118CB", "U+118CC", "U+118CD", "U+118CE", "U+118CF", "U+118D0", "U+118D1",
      "U+118D2", "U+118D3", "U+118D4", "U+118D5", "U+118D6", "U+118D7", "U+118D8", "U+118D9",
      "U+118DA", "U+118DB", "U+118DC", "U+118DD", "U+118DE", "U+118DF", "U+16E60", "U+16E61",
      "U+16E62", "U+16E63", "U+16E64", "U+16E65", "U+16E66", "U+16E67", "U+16E68", "U+16E69",
      "U+16E6A", "U+16E6B", "U+16E6C", "U+16E6D", "U+16E6E", "U+16E6F", "U+16E70", "U+16E71",
      "U+16E72", "U+16E73", "U+16E74", "U+16E75", "U+16E76", "U+16E77", "U+16E78", "U+16E79",
      "U+16E7A", "U+16E7B", "U+16E7C", "U+16E7D", "U+16E7E", "U+16E7F", "U+1E922", "U+1E923",
      "U+1E924", "U+1E925", "U+1E926", "U+1E927", "U+1E928", "U+1E929", "U+1E92A", "U+1E92B",
      "U+1E92C", "U+1E92D", "U+1E92E", "U+1E92F", "U+1E930", "U+1E931", "U+1E932", "U+1E933",
      "U+1E934", "U+1E935", "U+1E936", "U+1E937", "U+1E938", "U+1E939", "U+1E93A", "U+1E93B",
      "U+1E93C", "U+1E93D", "U+1E93E", "U+1E93F", "U+1E940", "U+1E941", "U+1E942", "U+1E943">>

LowerOf ==
    [c \in Range(UpperChars) |->
        LowerChars[CHOOSE i \in 1..Len(UpperChars) : UpperChars[i] = c]]

\* str.lower() on a string of the one character c: the capital I with a dot
\* above, U+0130, becomes i and the combining dot above
LowerChar(c) ==
    IF c = "U+0130" THEN <<"i", "U+0307">>
    ELSE IF c \in DOMAIN LowerOf THEN <<LowerOf[c]>>
    ELSE <<c>>

\* the cased characters (Unicode property Cased) that str.lower() leaves as
\* they are: small letters and letters without a small form
CasedUnchanged ==
    {"a", "b", "c", "d", "e", "f", "g", "h",
     "i", "j", "k", "l", "m", "n", "o", "p",
     "q", "r", "s", "t", "u", "v", "w", "x",
     "y", "z", "ª", "µ", "º", "ß", "à", "á",
     "â", "ã", "ä", "å", "æ", "ç", "è", "é",
     "ê", "ë", "ì", "í", "î", "ï", "ð", "ñ",
     "ò", "ó", "ô", "õ", "ö", "ø", "ù", "ú",
     "û", "ü", "ý", "þ", "ÿ", "U+0101", "U+0103", "U+0105",
     "U+0107", "U+0109", "U+010B", "U+010D", "U+010F", "U+0111", "U+0113", "U+0115",
     "U+0117", "U+0119", "U+011B", "U+011D", "U+011F", "U+0121", "U+0123", "U+0125",
     "U+0127", "U+0129", "U+012B", "U+012D", "U+012F", "U+0131", "U+0133", "U+0135",
     "U+0137", "U+0138", "U+013A", "U+013C", "U+013E", "U+0140", "U+0142", "U+0144",
     "U+0146", "U+0148", "U+0149", "U+014B", "U+014D", "U+014F", "U+0151", "U+0153",
     "U+0155", "U+0157", "U+0159", "U+015B", "U+015D", "U+015F", "U+0161", "U+0163",
     "U+0165", "U+0167", "U+0169", "U+016B", "U+016D", "U+016F", "U+0171", "U+0173",
     "U+0175", "U+0177", "U+017A", "U+017C", "U+017E", "U+017F", "U+0180", "U+0183",
     "U+0185", "U+0188", "U+018C", "U+018D", "U+0192", "U+0195", "U+0199", "U+019A",
     "U+019B", "U+019E", "U+01A1", "U+01A3", "U+01A5", "U+01A8", "U+01AA", "U+01AB",
     "U+01AD", "U+01B0", "U+01B4", "U+01B6", "U+01B9", "U+01BA", "U+01BD", "U+01BE",
     "U+01BF", "U+01C6", "U+01C9", "U+01CC", "U+01CE", "U+01D0", "U+01D2", "U+01D4",
     "U+01D6", "U+01D8", "U+01DA", "U+01DC", "U+01DD", "U+01DF", "U+01E1", "U+01E3",
     "U+01E5", "U+01E7", "U+01E9", "U+01EB", "U+01ED", "U+01EF", "U+01F0", "U+01F3",
     "U+01F5", "U+01F9", "U+01FB", "U+01FD", "U+01FF", "U+0201", "U+0203", "U+0205",
     "U+0207", "U+0209", "U+020B", "U+020D", "U+020F", "U+0211", "U+0213", "U+0215",
     "U+0217", "U+0219", "U+021B", "U+021D", "U+021F", "U+0221", "U+0223", "U+0225",
     "U+0227", "U+0229", "U+022B", "U+022D", "U+022F", "U+0231", "U+0233", "U+0234",
     "U+0235", "U+0236", "U+0237", "U+0238", "U+0239", "U+023C", "U+023F", "U+0240",
     "U+0242", "U+0247", "U+0249", "U+024B", "U+024D", "U+024F", "U+0250", "U+0251",
     "U+0252", "U+0253", "U+0254", "U+0255", "U+0256", "U+0257", "U+0258", "U+0259",
     "U+025A", "U+025B", "U+025C", "U+025D", "U+025E", "U+025F", "U+0260", "U+0261",
     "U+0262", "U+0263", "U+0264", "U+0265", "U+0266", "U+0267", "U+0268", "U+0269",
     "U+026A", "U+026B", "U+026C", "U+026D", "U+026E", "U+026F", "U+0270", "U+0271",
     "U+0272", "U+0273", "U+0274", "U+0275", "U+0276", "U+0277", "U+0278", "U+0279",
     "U+027A", "U+027B", "U+027C", "U+027D", "U+027E", "U+027F", "U+0280", "U+0281",
     "U+0282", "U+0283", "U+0284", "U+0285", "U+0286", "U+0287", "U+0288", "U+0289",
     "U+028A", "U+028B", "U+028C", "U+028D", "U+028E", "U+028F", "U+0290", "U+0291",
     "U+0292", "U+0293", "U+0295", "U+0296", "U+0297", "U+0298", "U+0299", "U+029A",
     "U+029B", "U+029C", "U+029D", "U+029E", "U+029F", "U+02A0", "U+02A1", "U+02A2",
     "U+02A3", "U+02A4", "U+02A5", "U+02A6", "U+02A7", "U+02A8", "U+02A9", "U+02AA",
     "U+02AB", "U+02AC", "U+02AD", "U+02AE", "U+02AF", "U+02B0", "U+02B1", "U+02B2",
     "U+02B3", "U+02B4", "U+02B5", "U+02B6", "U+02B7", "U+02B8", "U+02C0", "U+02C1",
     "U+02E0", "U+02E1", "U+02E2", "U+02E3", "U+02E4", "U+0345", "U+0371", "U+0373",
     "U+0377", "U+037A", "U+037B", "U+037C", "U+037D", "U+0390", "U+03AC", "U+03AD",
     "U+03AE", "U+03AF", "U+03B0", "U+03B1", "U+03B2", "U+03B3", "U+03B4", "U+03B5",
     "U+03B6", "U+03B7", "U+03B8", "U+03B9", "U+03BA", "U+03BB", "U+03BC", "U+03BD",
     "U+03BE", "U+03BF", "U+03C0", "U+03C1", "U+03C2", "U+03C3", "U+03C4", "U+03C5",
     "U+03C6", "U+03C7", "U+03C8", "U+03C9", "U+03CA", "U+03CB", "U+03CC", "U+03CD",
     "U+03CE", "U+03D0", "U+03D1", "U+03D2", "U+03D3", "U+03D4", "U+03D5", "U+03D6",
     "U+03D7", "U+03D9", "U+03DB", "U+03DD", "U+03DF", "U+03E1", "U+03E3", "U+03E5",
     "U+03E7", "U+03E9", "U+03EB", "U+03ED", "U+03EF", "U+03F0", "U+03F1", "U+03F2",
     "U+03F3", "U+03F5", "U+03F8", "U+03FB", "U+03FC", "U+0430", "U+0431", "U+0432",
     "U+0433", "U+0434", "U+0435", "U+0436", "U+0437", "U+0438", "U+0439", "U+043A",
     "U+043B", "U+043C", "U+043D", "U+043E", "U+043F", "U+0440", "U+0441", "U+0442",
     "U+0443", "U+0444", "U+0445", "U+0446", "U+0447", "U+0448", "U+0449", "U+044A",
     "U+044B", "U+044C", "U+044D", "U+044E", "U+044F", "U+0450", "U+0451", "U+0452",
     "U+0453", "U+0454", "U+0455", "U+0456", "U+0457", "U+0458", "U+0459", "U+045A",
     "U+045B", "U+045C", "U+045D", "U+045E", "U+045F", "U+0461", "U+0463", "U+0465",
     "U+0467", "U+0469", "U+046B", "U+046D", "U+046F", "U+0471", "U+0473", "U+0475",
     "U+0477", "U+0479", "U+047B", "U+047D", "U+047F", "U+0481", "U+048B", "U+048D",
     "U+048F", "U+0491", "U+0493", "U+0495", "U+0497", "U+0499", "U+049B", "U+049D",
     "U+049F", "U+04A1", "U+04A3", "U+04A5", "U+04A7", "U+04A9", "U+04AB", "U+04AD",
     "U+04AF", "U+04B1", "U+04B3", "U+04B5", "U+04B7", "U+04B9", "U+04BB", "U+04BD",
     "U+04BF", "U+04C2", "U+04C4", "U+04C6", "U+04C8", "U+04CA", "U+04CC", "U+04CE",
     "U+04CF", "U+04D1", "U+04D3", "U+04D5", "U+04D7", "U+04D9", "U+04DB", "U+04DD",
     "U+04DF", "U+04E1", "U+04E3", "U+04E5", "U+04E7", "U+04E9", "U+04EB", "U+04ED",
     "U+04EF", "U+04F1", "U+04F3", "U+04F5", "U+04F7", "U+04F9", "U+04FB", "U+04FD",
     "U+04FF", "U+0501", "U+0503", "U+0505", "U+0507", "U+0509", "U+050B", "U+050D",
     "U+050F", "U+0511", "U+0513", "U+0515", "U+0517", "U+0519", "U+051B", "U+051D",
     "U+051F", "U+0521", "U+0523", "U+0525", "U+0527", "U+0529", "U+052B", "U+052D",
     "U+052F", "U+0560", "U+0561", "U+0562", "U+0563", "U+0564", "U+0565", "U+0566",
     "U+0567", "U+0568", "U+0569", "U+056A", "U+056B", "U+056C", "U+056D", "U+056E",
     "U+056F", "U+0570", "U+0571", "U+0572", "U+0573", "U+0574", "U+0575", "U+0576",
     "U+0577", "U+0578", "U+0579", "U+057A", "U+057B", "U+057C", "U+057D", "U+057E",
     "U+057F", "U+0580", "U+0581", "U+0582", "U+0583", "U+0584", "U+0585", "U+0586",
     "U+0587", "U+0588", "U+10D0", "U+10D1", "U+10D2", "U+10D3", "U+10D4", "U+10D5",
     "U+10D6", "U+10D7", "U+10D8", "U+10D9", "U+10DA", "U+10DB", "U+10DC", "U+10DD",
     "U+10DE", "U+10DF", "U+10E0", "U+10E1", "U+10E2", "U+10E3", "U+10E4", "U+10E5",
     "U+10E6", "U+10E7", "U+10E8", "U+10E9", "U+10EA", "U+10EB", "U+10EC", "U+10ED",
     "U+10EE", "U+10EF", "U+10F0", "U+10F1", "U+10F2", "U+10F3", "U+10F4", "U+10F5",
     "U+10F6", "U+10F7", "U+10F8", "U+10F9", "U+10FA", "U+10FC", "U+10FD", "U+10FE",
     "U+10FF", "U+13F8", "U+13F9", "U+13FA", "U+13FB", "U+13FC", "U+13FD", "U+1C80",
     "U+1C81", "U+1C82", "U+1C83", "U+1C84", "U+1C85", "U+1C86", "U+1C87", "U+1C88",
     "U+1D00", "U+1D01", "U+1D02", "U+1D03", "U+1D04", "U+1D05", "U+1D06", "U+1D07",
     "U+1D08", "U+1D09", "U+1D0A", "U+1D0B", "U+1D0C", "U+1D0D", "U+1D0E", "U+1D0F",
     "U+1D10", "U+1D11", "U+1D12", "U+1D13", "U+1D14", "U+1D15", "U+1D16", "U+1D17",
     "U+1D18", "U+1D19", "U+1D1A", "U+1D1B", "U+1D1C", "U+1D1D", "U+1D1E", "U+1D1F",
     "U+1D20", "U+1D21", "U+1D22", "U+1D23", "U+1D24", "U+1D25", "U+1D26", "U+1D27",
     "U+1D28", "U+1D29", "U+1D2A", "U+1D2B", "U+1D2C", "U+1D2D", "U+1D2E", "U+1D2F",
     "U+1D30", "U+1D31", "U+1D32", "U+1D33", "U+1D34", "U+1D35", "U+1D36", "U+1D37",
     "U+1D38", "U+1D39", "U+1D3A", "U+1D3B", "U+1D3C", "U+1D3D", "U+1D3E", "U+1D3F",
     "U+1D40", "U+1D41", "U+1D42", "U+1D43", "U+1D44", "U+1D45", "U+1D46", "U+1D47",
     "U+1D48", "U+1D49", "U+1D4A", "U+1D4B", "U+1D4C", "U+1D4D", "U+1D4E", "U+1D4F",
     "U+1D50", "U+1D51", "U+1D52", "U+1D53", "U+1D54", "U+1D55", "U+1D56", "U+1D57",
     "U+1D58", "U+1D59", "U+1D5A", "U+1D5B", "U+1D5C", "U+1D5D", "U+1D5E", "U+1D5F",
     "U+1D60", "U+1D61", "U+1D62", "U+1D63", "U+1D64", "U+1D65", "U+1D66", "U+1D67",
     "U+1D68", "U+1D69", "U+1D6A", "U+1D6B", "U+1D6C", "U+1D6D", "U+1D6E", "U+1D6F",
     "U+1D70", "U+1D71", "U+1D72", "U+1D73", "U+1D74", "U+1D75", "U+1D76", "U+1D77",
     "U+1D78", "U+1D79", "U+1D7A", "U+1D7B", "U+1D7C", "U+1D7D", "U+1D7E", "U+1D7F",
     "U+1D80", "U+1D81", "U+1D82", "U+1D83", "U+1D84", "U+1D85", "U+1D86", "U+1D87",
     "U+1D88", "U+1D89", "U+1D8A", "U+1D8B", "U+1D8C", "U+1D8D", "U+1D8E", "U+1D8F",
     "U+1D90", "U+1D91", "U+1D92", "U+1D93", "U+1D94", "U+1D95", "U+1D96", "U+1D97",
     "U+1D98", "U+1D99", "U+1D9A", "U+1D9B", "U+1D9C", "U+1D9D", "U+1D9E", "U+1D9F",
     "U+1DA0", "U+1DA1", "U+1DA2", "U+1DA3", "U+1DA4", "U+1DA5", "U+1DA6", "U+1DA7",
     "U+1DA8", "U+1DA9", "U+1DAA", "U+1DAB", "U+1DAC", "U+1DAD", "U+1DAE", "U+1DAF",
     "U+1DB0", "U+1DB1", "U+1DB2", "U+1DB3", "U+1DB4", "U+1DB5", "U+1DB6", "U+1DB7",
     "U+1DB8", "U+1DB9", "U+1DBA", "U+1DBB", "U+1DBC", "U+1DBD", "U+1DBE", "U+1DBF",
     "U+1E01", "U+1E03", "U+1E05", "U+1E07", "U+1E09", "U+1E0B", "U+1E0D", "U+1E0F",
     "U+1E11", "U+1E13", "U+1E15", "U+1E17", "U+1E19", "U+1E1B", "U+1E1D", "U+1E1F",
     "U+1E21", "U+1E23", "U+1E25", "U+1E27", "U+1E29", "U+1E2B", "U+1E2D", "U+1E2F",
     "U+1E31", "U+1E33", "U+1E35", "U+1E37", "U+1E39", "U+1E3B", "U+1E3D", "U+1E3F",
     "U+1E41", "U+1E43", "U+1E45", "U+1E47", "U+1E49", "U+1E4B", "U+1E4D", "U+1E4F",
     "U+1E51", "U+1E53", "U+1E55", "U+1E57", "U+1E59", "U+1E5B", "U+1E5D", "U+1E5F",
     "U+1E61", "U+1E63", "U+1E65", "U+1E67", "U+1E69", "U+1E6B", "U+1E6D", "U+1E6F",
     "U+1E71", "U+1E73", "U+1E75", "U+1E77", "U+1E79", "U+1E7B", "U+1E7D", "U+1E7F",
     "U+1E81", "U+1E83", "U+1E85", "U+1E87", "U+1E89", "U+1E8B", "U+1E8D", "U+1E8F",
     "U+1E91", "U+1E93", "U+1E95", "U+1E96", "U+1E97", "U+1E98", "U+1E99", "U+1E9A",
     "U+1E9B", "U+1E9C", "U+1E9D", "U+1E9F", "U+1EA1", "U+1EA3", "U+1EA5", "U+1EA7",
     "U+1EA9", "U+1EAB", "U+1EAD", "U+1EAF", "U+1EB1", "U+1EB3", "U+1EB5", "U+1EB7",
     "U+1EB9", "U+1EBB", "U+1EBD", "U+1EBF", "U+1EC1", "U+1EC3", "U+1EC5", "U+1EC7",
     "U+1EC9", "U+1ECB", "U+1ECD", "U+1ECF", "U+1ED1", "U+1ED3", "U+1ED5", "U+1ED7",
     "U+1ED9", "U+1EDB", "U+1EDD", "U+1EDF", "U+1EE1", "U+1EE3", "U+1EE5", "U+1EE7",
     "U+1EE9", "U+1EEB", "U+1EED", "U+1EEF", "U+1EF1", "U+1EF3", "U+1EF5", "U+1EF7",
     "U+1EF9", "U+1EFB", "U+1EFD", "U+1EFF", "U+1F00", "U+1F01", "U+1F02", "U+1F03",
     "U+1F04", "U+1F05", "U+1F06", "U+1F07", "U+1F10", "U+1F11", "U+1F12", "U+1F13",
     "U+1F14", "U+1F15", "U+1F20", "U+1F21", "U+1F22", "U+1F23", "U+1F24", "U+1F25",
     "U+1F26", "U+1F27", "U+1F30", "U+1F31", "U+1F32", "U+1F33", "U+1F34", "U+1F35",
     "U+1F36", "U+1F37", "U+1F40", "U+1F41", "U+1F42", "U+1F43", "U+1F44", "U+1F45",
     "U+1F50", "U+1F51", "U+1F52", "U+1F53", "U+1F54", "U+1F55", "U+1F56", "U+1F57",
     "U+1F60", "U+1F61", "U+1F62", "U+1F63", "U+1F64", "U+1F65", "U+1F66", "U+1F67",
     "U+1F70", "U+1F71", "U+1F72", "U+1F73", "U+1F74", "U+1F75", "U+1F76", "U+1F77",
     "U+1F78", "U+1F79", "U+1F7A", "U+1F7B", "U+1F7C", "U+1F7D", "U+1F80", "U+1F81",
     "U+1F82", "U+1F83", "U+1F84", "U+1F85", "U+1F86", "U+1F87", "U+1F90", "U+1F91",
     "U+1F92", "U+1F93", "U+1F94", "U+1F95", "U+1F96", "U+1F97", "U+1FA0", "U+1FA1",
     "U+1FA2", "U+1FA3", "U+1FA4", "U+1FA5", "U+1FA6", "U+1FA7", "U+1FB0", "U+1FB1",
     "U+1FB2", "U+1FB3", "U+1FB4", "U+1FB6", "U+1FB7", "U+1FBE", "U+1FC2", "U+1FC3",
     "U+1FC4", "U+1FC6", "U+1FC7", "U+1FD0", "U+1FD1", "U+1FD2", "U+1FD3", "U+1FD6",
     "U+1FD7", "U+1FE0", "U+1FE1", "U+1FE2", "U+1FE3", "U+1FE4", "U+1FE5", "U+1FE6",
     "U+1FE7", "U+1FF2", "U+1FF3", "U+1FF4", "U+1FF6", "U+1FF7", "U+2071", "U+207F",
     "U+2090", "U+2091", "U+2092", "U+2093", "U+2094", "U+2095", "U+2096", "U+2097",
     "U+2098", "U+2099", "U+209A", "U+209B", "U+209C", "U+2102", "U+2107", "U+210A",
     "U+210B", "U+210C", "U+210D", "U+210E", "U+210F", "U+2110", "U+2111", "U+2112",
     "U+2113", "U+2115", "U+2119", "U+211A", "U+211B", "U+211C", "U+211D", "U+2124",
     "U+2128", "U+212C", "U+212D", "U+212F", "U+2130", "U+2131", "U+2133", "U+2134",
     "U+2139", "U+213C", "U+213D", "U+213E", "U+213F", "U+2145", "U+2146", "U+2147",
     "U+2148", "U+2149", "U+214E", "U+2170", "U+2171", "U+2172", "U+2173", "U+2174",
     "U+2175", "U+2176", "U+2177", "U+2178", "U+2179", "U+217A", "U+217B", "U+217C",
     "U+217D", "U+217E", "U+217F", "U+2184", "U+24D0", "U+24D1", "U+24D2", "U+24D3",
     "U+24D4", "U+24D5", "U+24D6", "U+24D7", "U+24D8", "U+24D9", "U+24DA", "U+24DB",
     "U+24DC", "U+24DD", "U+24DE", "U+24DF", "U+24E0", "U+24E1", "U+24E2", "U+24E3",
     "U+24E4", "U+24E5", "U+24E6", "U+24E7", "U+24E8", "U+24E9", "U+2C30", "U+2C31",
     "U+2C32", "U+2C33", "U+2C34", "U+2C35", "U+2C36", "U+2C37", "U+2C38", "U+2C39",
     "U+2C3A", "U+2C3B", "U+2C3C", "U+2C3D", "U+2C3E", "U+2C3F", "U+2C40", "U+2C41",
     "U+2C42", "U+2C43", "U+2C44", "U+2C45", "U+2C46", "U+2C47", "U+2C48", "U+2C49",
     "U+2C4A", "U+2C4B", "U+2C4C", "U+2C4D", "U+2C4E", "U+2C4F", "U+2C50", "U+2C51",
     "U+2C52", "U+2C53", "U+2C54", "U+2C55", "U+2C56", "U+2C57", "U+2C58", "U+2C59",
     "U+2C5A", "U+2C5B", "U+2C5C", "U+2C5D", "U+2C5E", "U+2C5F", "U+2C61", "U+2C65",
     "U+2C66", "U+2C68", "U+2C6A", "U+2C6C", "U+2C71", "U+2C73", "U+2C74", "U+2C76",
     "U+2C77", "U+2C78", "U+2C79", "U+2C7A", "U+2C7B", "U+2C7C", "U+2C7D", "U+2C81",
     "U+2C83", "U+2C85", "U+2C87", "U+2C89", "U+2C8B", "U+2C8D", "U+2C8F", "U+2C91",
     "U+2C93", "U+2C95", "U+2C97", "U+2C99", "U+2C9B", "U+2C9D", "U+2C9F", "U+2CA1",
     "U+2CA3", "U+2CA5", "U+2CA7", "U+2CA9", "U+2CAB", "U+2CAD", "U+2CAF", "U+2CB1",
     "U+2CB3", "U+2CB5", "U+2CB7", "U+2CB9", "U+2CBB", "U+2CBD", "U+2CBF", "U+2CC1",
     "U+2CC3", "U+2CC5", "U+2CC7", "U+2CC9", "U+2CCB", "U+2CCD", "U+2CCF", "U+2CD1",
     "U+2CD3", "U+2CD5", "U+2CD7", "U+2CD9", "U+2CDB", "U+2CDD", "U+2CDF", "U+2CE1",
     "U+2CE3", "U+2CE4", "U+2CEC", "U+2CEE", "U+2CF3", "U+2D00", "U+2D01", "U+2D02",
     "U+2D03", "U+2D04", "U+2D05", "U+2D06", "U+2D07", "U+2D08", "U+2D09", "U+2D0A",
     "U+2D0B", "U+2D0C", "U+2D0D", "U+2D0E", "U+2D0F", "U+2D10", "U+2D11", "U+2D12",
     "U+2D13", "U+2D14", "U+2D15", "U+2D16", "U+2D17", "U+2D18", "U+2D19", "U+2D1A",
     "U+2D1B", "U+2D1C", "U+2D1D", "U+2D1E", "U+2D1F", "U+2D20", "U+2D21", "U+2D22",
     "U+2D23", "U+2D24", "U+2D25", "U+2D27", "U+2D2D", "U+A641", "U+A643", "U+A645",
     "U+A647", "U+A649", "U+A64B", "U+A64D", "U+A64F", "U+A651", "U+A653", "U+A655",
     "U+A657", "U+A659", "U+A65B", "U+A65D", "U+A65F", "U+A661", "U+A663", "U+A665",
     "U+A667", "U+A669", "U+A66B", "U+A66D", "U+A681", "U+A683", "U+A685", "U+A687",
     "U+A689", "U+A68B", "U+A68D", "U+A68F", "U+A691", "U+A693", "U+A695", "U+A697",
     "U+A699", "U+A69B", "U+A69C", "U+A69D", "U+A723", "U+A725", "U+A727", "U+A729",
     "U+A72B", "U+A72D", "U+A72F", "U+A730", "U+A731", "U+A733", "U+A735", "U+A737",
     "U+A739", "U+A73B", "U+A73D", "U+A73F", "U+A741", "U+A743", "U+A745", "U+A747",
     "U+A749", "U+A74B", "U+A74D", "U+A74F", "U+A751", "U+A753", "U+A755", "U+A757",
     "U+A759", "U+A75B", "U+A75D", "U+A75F", "U+A761", "U+A763", "U+A765", "U+A767",
     "U+A769", "U+A76B", "U+A76D", "U+A76F", "U+A770", "U+A771", "U+A772", "U+A773",
     "U+A774", "U+A775", "U+A776", "U+A777", "U+A778", "U+A77A", "U+A77C", "U+A77F",
     "U+A781", "U+A783", "U+A785", "U+A787", "U+A78C", "U+A78E", "U+A791", "U+A793",
     "U+A794", "U+A795", "U+A797", "U+A799", "U+A79B", "U+A79D", "U+A79F", "U+A7A1",
     "U+A7A3", "U+A7A5", "U+A7A7", "U+A7A9", "U+A7AF", "U+A7B5", "U+A7B7", "U+A7B9",
     "U+A7BB", "U+A7BD", "U+A7BF", "U+A7C1", "U+A7C3", "U+A7C8", "U+A7CA", "U+A7D1",
     "U+A7D3", "U+A7D5", "U+A7D7", "U+A7D9", "U+A7F2", "U+A7F3", "U+A7F4", "U+A7F6",
     "U+A7F8", "U+A7F9", "U+A7FA", "U+AB30", "U+AB31", "U+AB32", "U+AB33", "U+AB34",
     "U+AB35", "U+AB36", "U+AB37", "U+AB38", "U+AB39", "U+AB3A", "U+AB3B", "U+AB3C",
     "U+AB3D", "U+AB3E", "U+AB3F", "U+AB40", "U+AB41", "U+AB42", "U+AB43", "U+AB44",
     "U+AB45", "U+AB46", "U+AB47", "U+AB48", "U+AB49", "U+AB4A", "U+AB4B", "U+AB4C",
     "U+AB4D", "U+AB4E", "U+AB4F", "U+AB50", "U+AB51", "U+AB52", "U+AB53", "U+AB54",
     "U+AB55", "U+AB56", "U+AB57", "U+AB58", "U+AB59", "U+AB5A", "U+AB5C", "U+AB5D",
     "U+AB5E", "U+AB5F", "U+AB60", "U+AB61", "U+AB62", "U+AB63", "U+AB64", "U+AB65",
     "U+AB66", "U+AB67", "U+AB68", "U+AB69", "U+AB70", "U+AB71", "U+AB72", "U+AB73",
     "U+AB74", "U+AB75", "U+AB76", "U+AB77", "U+AB78", "U+AB79", "U+AB7A", "U+AB7B",
     "U+AB7C", "U+AB7D", "U+AB7E", "U+AB7F", "U+AB80", "U+AB81", "U+AB82", "U+AB83",
     "U+AB84", "U+AB85", "U+AB86", "U+AB87", "U+AB88", "U+AB89", "U+AB8A", "U+AB8B",
     "U+AB8C", "U+AB8D", "U+AB8E", "U+AB8F", "U+AB90", "U+AB91", "U+AB92", "U+AB93",
     "U+AB94", "U+AB95", "U+AB96", "U+AB97", "U+AB98", "U+AB99", "U+AB9A", "U+AB9B",
     "U+AB9C", "U+AB9D", "U+AB9E", "U+AB9F", "U+ABA0", "U+ABA1", "U+ABA2", "U+ABA3",
     "U+ABA4", "U+ABA5", "U+ABA6", "U+ABA7", "U+ABA8", "U+ABA9", "U+ABAA", "U+ABAB",
     "U+ABAC", "U+ABAD", "U+ABAE", "U+ABAF", "U+ABB0", "U+ABB1", "U+ABB2", "U+ABB3",
     "U+ABB4", "U+ABB5", "U+ABB6", "U+ABB7", "U+ABB8", "U+ABB9", "U+ABBA", "U+ABBB",
     "U+ABBC", "U+ABBD", "U+ABBE", "U+ABBF", "U+FB00", "U+FB01", "U+FB02", "U+FB03",
     "U+FB04", "U+FB05", "U+FB06", "U+FB13", "U+FB14", "U+FB15", "U+FB16", "U+FB17",
     "U+FF41", "U+FF42", "U+FF43", "U+FF44", "U+FF45", "U+FF46", "U+FF47", "U+FF48",
     "U+FF49", "U+FF4A", "U+FF4B", "U+FF4C", "U+FF4D", "U+FF4E", "U+FF4F", "U+FF50",
     "U+FF51", "U+FF52", "U+FF53", "U+FF54", "U+FF55", "U+FF56", "U+FF57", "U+FF58",
     "U+FF59", "U+FF5A", "U+10428", "U+10429", "U+1042A", "U+1042B", "U+1042C", "U+1042D",
     "U+1042E", "U+1042F", "U+10430", "U+10431", "U+10432", "U+10433", "U+10434", "U+10435",
     "U+10436", "U+10437", "U+10438", "U+10439", "U+1043A", "U+1043B", "U+1043C", "U+1043D",
     "U+1043E", "U+1043F", "U+10440", "U+10441", "U+10442", "U+10443", "U+10444", "U+10445",
     "U+10446", "U+10447", "U+10448", "U+10449", "U+1044A", "U+1044B", "U+1044C", "U+1044D",
     "U+1044E", "U+1044F", "U+104D8", "U+104D9", "U+104DA", "U+104DB", "U+104DC", "U+104DD",
     "U+104DE", "U+104DF", "U+104E0", "U+104E1", "U+104E2", "U+104E3", "U+104E4", "U+104E5",
     "U+104E6", "U+104E7", "U+104E8", "U+104E9", "U+104EA", "U+104EB", "U+104EC", "U+104ED",
     "U+104EE", "U+104EF", "U+104F0", "U+104F1", "U+104F2", "U+104F3", "U+104F4", "U+104F5",
     "U+104F6", "U+104F7", "U+104F8", "U+104F9", "U+104FA", "U+104FB", "U+10597", "U+10598",
     "U+10599", "U+1059A", "U+1059B", "U+1059C", "U+1059D", "U+1059E", "U+1059F", "U+105A0",
     "U+105A1", "U+105A3", "U+105A4", "U+105A5", "U+105A6", "U+105A7", "U+105A8", "U+105A9",
     "U+105AA", "U+105AB", "U+105AC", "U+105AD", "U+105AE", "U+105AF", "U+105B0", "U+105B1",
     "U+105B3", "U+105B4", "U+105B5", "U+105B6", "U+105B7", "U+105B8", "U+105B9", "U+105BB",
     "U+105BC", "U+10780", "U+10783", "U+10784", "U+10785", "U+10787", "U+10788", "U+10789",
     "U+1078A", "U+1078B", "U+1078C", "U+1078D", "U+1078E", "U+1078F", "U+10790", "U+10791",
     "U+10792", "U+10793", "U+10794", "U+10795", "U+10796", "U+10797", "U+10798", "U+10799",
     "U+1079A", "U+1079B", "U+1079C", "U+1079D", "U+1079E", "U+1079F", "U+107A0", "U+107A1",
     "U+107A2", "U+107A3", "U+107A4", "U+107A5", "U+107A6", "U+107A7", "U+107A8", "U+107A9",
     "U+107AA", "U+107AB", "U+107AC", "U+107AD", "U+107AE", "U+107AF", "U+107B0", "U+107B2",
     "U+107B3", "U+107B4", "U+107B5", "U+107B6", "U+107B7", "U+107B8", "U+107B9", "U+107BA",
     "U+10CC0", "U+10CC1", "U+10CC2", "U+10CC3", "U+10CC4", "U+10CC5", "U+10CC6", "U+10CC7",
     "U+10CC8", "U+10CC9", "U+10CCA", "U+10CCB", "U+10CCC", "U+10CCD", "U+10CCE", "U+10CCF",
     "U+10CD0", "U+10CD1", "U+10CD2", "U+10CD3", "U+10CD4", "U+10CD5", "U+10CD6", "U+10CD7",
     "U+10CD8", "U+10CD9", "U+10CDA", "U+10CDB", "U+10CDC", "U+10CDD", "U+10CDE", "U+10CDF",
     "U+10CE0", "U+10CE1", "U+10CE2", "U+10CE3", "U+10CE4", "U+10CE5", "U+10CE6", "U+10CE7",
     "U+10CE8", "U+10CE9", "U+10CEA", "U+10CEB", "U+10CEC", "U+10CED", "U+10CEE", "U+10CEF",
     "U+10CF0", "U+10CF1", "U+10CF2", "U+118C0", "U+118C1", "U+118C2", "U+118C3", "U+118C4",
     "U+118C5", "U+118C6", "U+118C7", "U+118C8", "U+118C9", "U+118CA", "U+118CB", "U+118CC",
     "U+118CD", "U+118CE", "U+118CF", "U+118D0", "U+118D1", "U+118D2", "U+118D3", "U+118D4",
     "U+118D5", "U+118D6", "U+118D7", "U+118D8", "U+118D9", "U+118DA", "U+118DB", "U+118DC",
     "U+118DD", "U+118DE", "U+118DF", "U+16E60", "U+16E61", "U+16E62", "U+16E63", "U+16E64",
     "U+16E65", "U+16E66", "U+16E67", "U+16E68", "U+16E69", "U+16E6A", "U+16E6B", "U+16E6C",
     "U+16E6D", "U+16E6E", "U+16E6F", "U+16E70", "U+16E71", "U+16E72", "U+16E73", "U+16E74",
     "U+16E75", "U+16E76", "U+16E77", "U+16E78", "U+16E79", "U+16E7A", "U+16E7B", "U+16E7C",
     "U+16E7D", "U+16E7E", "U+16E7F", "U+1D400", "U+1D401", "U+1D402", "U+1D403", "U+1D404",
     "U+1D405", "U+1D406", "U+1D407", "U+1D408", "U+1D409", "U+1D40A", "U+1D40B", "U+1D40C",
     "U+1D40D", "U+1D40E", "U+1D40F", "U+1D410", "U+1D411", "U+1D412", "U+1D413", "U+1D414",
     "U+1D415", "U+1D416", "U+1D417", "U+1D418", "U+1D419", "U+1D41A", "U+1D41B", "U+1D41C",
     "U+1D41D", "U+1D41E", "U+1D41F", "U+1D420", "U+1D421", "U+1D422", "U+1D423", "U+1D424",
     "U+1D425", "U+1D426", "U+1D427", "U+1D428", "U+1D429", "U+1D42A", "U+1D42B", "U+1D42C",
     "U+1D42D", "U+1D42E", "U+1D42F", "U+1D430", "U+1D431", "U+1D432", "U+1D433", "U+1D434",
     "U+1D435", "U+1D436", "U+1D437", "U+1D438", "U+1D439", "U+1D43A", "U+1D43B", "U+1D43C",
     "U+1D43D", "U+1D43E", "U+1D43F", "U+1D440", "U+1D441", "U+1D442", "U+1D443", "U+1D444",
     "U+1D445", "U+1D446", "U+1D447", "U+1D448", "U+1D449", "U+1D44A", "U+1D44B", "U+1D44C",
     "U+1D44D", "U+1D44E", "U+1D44F", "U+1D450", "U+1D451", "U+1D452", "U+1D453", "U+1D454",
     "U+1D456", "U+1D457", "U+1D458", "U+1D459", "U+1D45A", "U+1D45B", "U+1D45C", "U+1D45D",
     "U+1D45E", "U+1D45F", "U+1D460", "U+1D461", "U+1D462", "U+1D463", "U+1D464", "U+1D465",
     "U+1D466", "U+1D467", "U+1D468", "U+1D469", "U+1D46A", "U+1D46B", "U+1D46C", "U+1D46D",
     "U+1D46E", "U+1D46F", "U+1D470", "U+1D471", "U+1D472", "U+1D473", "U+1D474", "U+1D475",
     "U+1D476", "U+1D477", "U+1D478", "U+1D479", "U+1D47A", "U+1D47B", "U+1D47C", "U+1D47D",
     "U+1D47E", "U+1D47F", "U+1D480", "U+1D481", "U+1D482", "U+1D483", "U+1D484", "U+1D485",
     "U+1D486", "U+1D487", "U+1D488", "U+1D489", "U+1D48A", "U+1D48B", "U+1D48C", "U+1D48D",
     "U+1D48E", "U+1D48F", "U+1D490", "U+1D491", "U+1D492", "U+1D493", "U+1D494", "U+1D495",
     "U+1D496", "U+1D497", "U+1D498", "U+1D499", "U+1D49A", "U+1D49B", "U+1D49C", "U+1D49E",
     "U+1D49F", "U+1D4A2", "U+1D4A5", "U+1D4A6", "U+1D4A9", "U+1D4AA", "U+1D4AB", "U+1D4AC",
     "U+1D4AE", "U+1D4AF", "U+1D4B0", "U+1D4B1", "U+1D4B2", "U+1D4B3", "U+1D4B4", "U+1D4B5",
     "U+1D4B6", "U+1D4B7", "U+1D4B8", "U+1D4B9", "U+1D4BB", "U+1D4BD", "U+1D4BE", "U+1D4BF",
     "U+1D4C0", "U+1D4C1", "U+1D4C2", "U+1D4C3", "U+1D4C5", "U+1D4C6", "U+1D4C7", "U+1D4C8",
     "U+1D4C9", "U+1D4CA", "U+1D4CB", "U+1D4CC", "U+1D4CD", "U+1D4CE", "U+1D4CF", "U+1D4D0",
     "U+1D4D1", "U+1D4D2", "U+1D4D3", "U+1D4D4", "U+1D4D5", "U+1D4D6", "U+1D4D7", "U+1D4D8",
     "U+1D4D9", "U+1D4DA", "U+1D4DB", "U+1D4DC", "U+1D4DD", "U+1D4DE", "U+1D4DF", "U+1D4E0",
     "U+1D4E1", "U+1D4E2", "U+1D4E3", "U+1D4E4", "U+1D4E5", "U+1D4E6", "U+1D4E7", "U+1D4E8",
     "U+1D4E9", "U+1D4EA", "U+1D4EB", "U+1D4EC", "U+1D4ED", "U+1D4EE", "U+1D4EF", "U+1D4F0",
     "U+1D4F1", "U+1D4F2", "U+1D4F3", "U+1D4F4", "U+1D4F5", "U+1D4F6", "U+1D4F7", "U+1D4F8",
     "U+1D4F9", "U+1D4FA", "U+1D4FB", "U+1D4FC", "U+1D4FD", "U+1D4FE", "U+1D4FF", "U+1D500",
     "U+1D501", "U+1D502", "U+1D503", "U+1D504", "U+1D505", "U+1D507", "U+1D508", "U+1D509",
     "U+1D50A", "U+1D50D", "U+1D50E", "U+1D50F", "U+1D510", "U+1D511", "U+1D512", "U+1D513",
     "U+1D514", "U+1D516", "U+1D517", "U+1D518", "U+1D519", "U+1D51A", "U+1D51B", "U+1D51C",
     "U+1D51E", "U+1D51F", "U+1D520", "U+1D521", "U+1D522", "U+1D523", "U+1D524", "U+1D525",
     "U+1D526", "U+1D527", "U+1D528", "U+1D529", "U+1D52A", "U+1D52B", "U+1D52C", "U+1D52D",
     "U+1D52E", "U+1D52F", "U+1D530", "U+1D531", "U+1D532", "U+1D533", "U+1D534", "U+1D535",
     "U+1D536", "U+1D537", "U+1D538", "U+1D539", "U+1D53B", "U+1D53C", "U+1D53D", "U+1D53E",
     "U+1D540", "U+1D541", "U+1D542", "U+1D543", "U+1D544", "U+1D546", "U+1D54A", "U+1D54B",
     "U+1D54C", "U+1D54D", "U+1D54E", "U+1D54F", "U+1D550", "U+1D552", "U+1D553", "U+1D554",
     "U+1D555", "U+1D556", "U+1D557", "U+1D558", "U+1D559", "U+1D55A", "U+1D55B", "U+1D55C",
     "U+1D55D", "U+1D55E", "U+1D55F", "U+1D560", "U+1D561", "U+1D562", "U+1D563", "U+1D564",
     "U+1D565", "U+1D566", "U+1D567", "U+1D568", "U+1D569", "U+1D56A", "U+1D56B", "U+1D56C",
     "U+1D56D", "U+1D56E", "U+1D56F", "U+1D570", "U+1D571", "U+1D572", "U+1D573", "U+1D574",
     "U+1D575", "U+1D576", "U+1D577", "U+1D578", "U+1D579", "U+1D57A", "U+1D57B", "U+1D57C",
     "U+1D57D", "U+1D57E", "U+1D57F", "U+1D580", "U+1D581", "U+1D582", "U+1D583", "U+1D584",
     "U+1D585", "U+1D586", "U+1D587", "U+1D588", "U+1D589", "U+1D58A", "U+1D58B", "U+1D58C",
     "U+1D58D", "U+1D58E", "U+1D58F", "U+1D590", "U+1D591", "U+1D592", "U+1D593", "U+1D594",
     "U+1D595", "U+1D596", "U+1D597", "U+1D598", "U+1D599", "U+1D59A", "U+1D59B", "U+1D59C",
     "U+1D59D", "U+1D59E", "U+1D59F", "U+1D5A0", "U+1D5A1", "U+1D5A2", "U+1D5A3", "U+1D5A4",
     "U+1D5A5", "U+1D5A6", "U+1D5A7", "U+1D5A8", "U+1D5A9", "U+1D5AA", "U+1D5AB", "U+1D5AC",
     "U+1D5AD", "U+1D5AE", "U+1D5AF", "U+1D5B0", "U+1D5B1", "U+1D5B2", "U+1D5B3", "U+1D5B4",
     "U+1D5B5", "U+1D5B6", "U+1D5B7", "U+1D5B8", "U+1D5B9", "U+1D5BA", "U+1D5BB", "U+1D5BC",
     "U+1D5BD", "U+1D5BE", "U+1D5BF", "U+1D5C0", "U+1D5C1", "U+1D5C2", "U+1D5C3", "U+1D5C4",
     "U+1D5C5", "U+1D5C6", "U+1D5C7", "U+1D5C8", "U+1D5C9", "U+1D5CA", "U+1D5CB", "U+1D5CC",
     "U+1D5CD", "U+1D5CE", "U+1D5CF", "U+1D5D0", "U+1D5D1", "U+1D5D2", "U+1D5D3", "U+1D5D4",
     "U+1D5D5", "U+1D5D6", "U+1D5D7", "U+1D5D8", "U+1D5D9", "U+1D5DA", "U+1D5DB", "U+1D5DC",
     "U+1D5DD", "U+1D5DE", "U+1D5DF", "U+1D5E0", "U+1D5E1", "U+1D5E2", "U+1D5E3", "U+1D5E4",
     "U+1D5E5", "U+1D5E6", "U+1D5E7", "U+1D5E8", "U+1D5E9", "U+1D5EA", "U+1D5EB", "U+1D5EC",
     "U+1D5ED", "U+1D5EE", "U+1D5EF", "U+1D5F0", "U+1D5F1", "U+1D5F2", "U+1D5F3", "U+1D5F4",
     "U+1D5F5", "U+1D5F6", "U+1D5F7", "U+1D5F8", "U+1D5F9", "U+1D5FA", "U+1D5FB", "U+1D5FC",
     "U+1D5FD", "U+1D5FE", "U+1D5FF", "U+1D600", "U+1D601", "U+1D602", "U+1D603", "U+1D604",
     "U+1D605", "U+1D606", "U+1D607", "U+1D608", "U+1D609", "U+1D60A", "U+1D60B", "U+1D60C",
     "U+1D60D", "U+1D60E", "U+1D60F", "U+1D610", "U+1D611", "U+1D612", "U+1D613", "U+1D614",
     "U+1D615", "U+1D616", "U+1D617", "U+1D618", "U+1D619", "U+1D61A", "U+1D61B", "U+1D61C",
     "U+1D61D", "U+1D61E", "U+1D61F", "U+1D620", "U+1D621", "U+1D622", "U+1D623", "U+1D624",
     "U+1D625", "U+1D626", "U+1D627", "U+1D628", "U+1D629", "U+1D62A", "U+1D62B", "U+1D62C",
     "U+1D62D", "U+1D62E", "U+1D62F", "U+1D630", "U+1D631", "U+1D632", "U+1D633", "U+1D634",
     "U+1D635", "U+1D636", "U+1D637", "U+1D638", "U+1D639", "U+1D63A", "U+1D63B", "U+1D63C",
     "U+1D63D", "U+1D63E", "U+1D63F", "U+1D640", "U+1D641", "U+1D642", "U+1D643", "U+1D644",
     "U+1D645", "U+1D646", "U+1D647", "U+1D648", "U+1D649", "U+1D64A", "U+1D64B", "U+1D64C",
     "U+1D64D", "U+1D64E", "U+1D64F", "U+1D650", "U+1D651", "U+1D652", "U+1D653", "U+1D654",
     "U+1D655", "U+1D656", "U+1D657", "U+1D658", "U+1D659", "U+1D65A", "U+1D65B", "U+1D65C",
     "U+1D65D", "U+1D65E", "U+1D65F", "U+1D660", "U+1D661", "U+1D662", "U+1D663", "U+1D664",
     "U+1D665", "U+1D666", "U+1D667", "U+1D668", "U+1D669", "U+1D66A", "U+1D66B", "U+1D66C",
     "U+1D66D", "U+1D66E", "U+1D66F", "U+1D670", "U+1D671", "U+1D672", "U+1D673", "U+1D674",
     "U+1D675", "U+1D676", "U+1D677", "U+1D678", "U+1D679", "U+1D67A", "U+1D67B", "U+1D67C",
     "U+1D67D", "U+1D67E", "U+1D67F", "U+1D680", "U+1D681", "U+1D682", "U+1D683", "U+1D684",
     "U+1D685", "U+1D686", "U+1D687", "U+1D688", "U+1D689", "U+1D68A", "U+1D68B", "U+1D68C",
     "U+1D68D", "U+1D68E", "U+1D68F", "U+1D690", "U+1D691", "U+1D692", "U+1D693", "U+1D694",
     "U+1D695", "U+1D696", "U+1D697", "U+1D698", "U+1D699", "U+1D69A", "U+1D69B", "U+1D69C",
     "U+1D69D", "U+1D69E", "U+1D69F", "U+1D6A0", "U+1D6A1", "U+1D6A2", "U+1D6A3", "U+1D6A4",
     "U+1D6A5", "U+1D6A8", "U+1D6A9", "U+1D6AA", "U+1D6AB", "U+1D6AC", "U+1D6AD", "U+1D6AE",
     "U+1D6AF", "U+1D6B0", "U+1D6B1", "U+1D6B2", "U+1D6B3", "U+1D6B4", "U+1D6B5", "U+1D6B6",
     "U+1D6B7", "U+1D6B8", "U+1D6B9", "U+1D6BA", "U+1D6BB", "U+1D6BC", "U+1D6BD", "U+1D6BE",
     "U+1D6BF", "U+1D6C0", "U+1D6C2", "U+1D6C3", "U+1D6C4", "U+1D6C5", "U+1D6C6", "U+1D6C7",
     "U+1D6C8", "U+1D6C9", "U+1D6CA", "U+1D6CB", "U+1D6CC", "U+1D6CD", "U+1D6CE", "U+1D6CF",
     "U+1D6D0", "U+1D6D1", "U+1D6D2", "U+1D6D3", "U+1D6D4", "U+1D6D5", "U+1D6D6", "U+1D6D7",
     "U+1D6D8", "U+1D6D9", "U+1D6DA", "U+1D6DC", "U+1D6DD", "U+1D6DE", "U+1D6DF", "U+1D6E0",
     "U+1D6E1", "U+1D6E2", "U+1D6E3", "U+1D6E4", "U+1D6E5", "U+1D6E6", "U+1D6E7", "U+1D6E8",
     "U+1D6E9", "U+1D6EA", "U+1D6EB", "U+1D6EC", "U+1D6ED", "U+1D6EE", "U+1D6EF", "U+1D6F0",
     "U+1D6F1", "U+1D6F2", "U+1D6F3", "U+1D6F4", "U+1D6F5", "U+1D6F6", "U+1D6F7", "U+1D6F8",
     "U+1D6F9", "U+1D6FA", "U+1D6FC", "U+1D6FD", "U+1D6FE", "U+1D6FF", "U+1D700", "U+1D701",
     "U+1D702", "U+1D703", "U+1D704", "U+1D705", "U+1D706", "U+1D707", "U+1D708", "U+1D709",
     "U+1D70A", "U+1D70B", "U+1D70C", "U+1D70D", "U+1D70E", "U+1D70F", "U+1D710", "U+1D711",
     "U+1D712", "U+1D713", "U+1D714", "U+1D716", "U+1D717", "U+1D718", "U+1D719", "U+1D71A",
     "U+1D71B", "U+1D71C", "U+1D71D", "U+1D71E", "U+1D71F", "U+1D720", "U+1D721", "U+1D722",
     "U+1D723", "U+1D724", "U+1D725", "U+1D726", "U+1D727", "U+1D728", "U+1D729", "U+1D72A",
     "U+1D72B", "U+1D72C", "U+1D72D", "U+1D72E", "U+1D72F", "U+1D730", "U+1D731", "U+1D732",
     "U+1D733", "U+1D734", "U+1D736", "U+1D737", "U+1D738", "U+1D739", "U+1D73A", "U+1D73B",
     "U+1D73C", "U+1D73D", "U+1D73E", "U+1D73F", "U+1D740", "U+1D741", "U+1D742", "U+1D743",
     "U+1D744", "U+1D745", "U+1D746", "U+1D747", "U+1D748", "U+1D749", "U+1D74A", "U+1D74B",
     "U+1D74C", "U+1D74D", "U+1D74E", "U+1D750", "U+1D751", "U+1D752", "U+1D753", "U+1D754",
     "U+1D755", "U+1D756", "U+1D757", "U+1D758", "U+1D759", "U+1D75A", "U+1D75B", "U+1D75C",
     "U+1D75D", "U+1D75E", "U+1D75F", "U+1D760", "U+1D761", "U+1D762", "U+1D763", "U+1D764",
     "U+1D765", "U+1D766", "U+1D767", "U+1D768", "U+1D769", "U+1D76A", "U+1D76B", "U+1D76C",
     "U+1D76D", "U+1D76E", "U+1D770", "U+1D771", "U+1D772", "U+1D773", "U+1D774", "U+1D775",
     "U+1D776", "U+1D777", "U+1D778", "U+1D779", "U+1D77A", "U+1D77B", "U+1D77C", "U+1D77D",
     "U+1D77E", "U+1D77F", "U+1D780", "U+1D781", "U+1D782", "U+1D783", "U+1D784", "U+1D785",
     "U+1D786", "U+1D787", "U+1D788", "U+1D78A", "U+1D78B", "U+1D78C", "U+1D78D", "U+1D78E",
     "U+1D78F", "U+1D790", "U+1D791", "U+1D792", "U+1D793", "U+1D794", "U+1D795", "U+1D796",
     "U+1D797", "U+1D798", "U+1D799", "U+1D79A", "U+1D79B", "U+1D79C", "U+1D79D", "U+1D79E",
     "U+1D79F", "U+1D7A0", "U+1D7A1", "U+1D7A2", "U+1D7A3", "U+1D7A4", "U+1D7A5", "U+1D7A6",
     "U+1D7A7", "U+1D7A8", "U+1D7AA", "U+1D7AB", "U+1D7AC", "U+1D7AD", "U+1D7AE", "U+1D7AF",
     "U+1D7B0", "U+1D7B1", "U+1D7B2", "U+1D7B3", "U+1D7B4", "U+1D7B5", "U+1D7B6", "U+1D7B7",
     "U+1D7B8", "U+1D7B9", "U+1D7BA", "U+1D7BB", "U+1D7BC", "U+1D7BD", "U+1D7BE", "U+1D7BF",
     "U+1D7C0", "U+1D7C1", "U+1D7C2", "U+1D7C4", "U+1D7C5", "U+1D7C6", "U+1D7C7", "U+1D7C8",
     "U+1D7C9", "U+1D7CA", "U+1D7CB", "U+1DF00", "U+1DF01", "U+1DF02", "U+1DF03", "U+1DF04",
     "U+1DF05", "U+1DF06", "U+1DF07", "U+1DF08", "U+1DF09", "U+1DF0B", "U+1DF0C", "U+1DF0D",
     "U+1DF0E", "U+1DF0F", "U+1DF10", "U+1DF11", "U+1DF12", "U+1DF13", "U+1DF14", "U+1DF15",
     "U+1DF16", "U+1DF17", "U+1DF18", "U+1DF19", "U+1DF1A", "U+1DF1B", "U+1DF1C", "U+1DF1D",
     "U+1DF1E", "U+1DF25", "U+1DF26", "U+1DF27", "U+1DF28", "U+1DF29", "U+1DF2A", "U+1E030",
     "U+1E031", "U+1E032", "U+1E033", "U+1E034", "U+1E035", "U+1E036", "U+1E037", "U+1E038",
     "U+1E039", "U+1E03A", "U+1E03B", "U+1E03C", "U+1E03D", "U+1E03E", "U+1E03F", "U+1E040",
     "U+1E041", "U+1E042", "U+1E043", "U+1E044", "U+1E045", "U+1E046", "U+1E047", "U+1E048",
     "U+1E049", "U+1E04A", "U+1E04B", "U+1E04C", "U+1E04D", "U+1E04E", "U+1E04F", "U+1E050",
     "U+1E051", "U+1E052", "U+1E053", "U+1E054", "U+1E055", "U+1E056", "U+1E057", "U+1E058",
     "U+1E059", "U+1E05A", "U+1E05B", "U+1E05C", "U+1E05D", "U+1E05E", "U+1E05F", "U+1E060",
     "U+1E061", "U+1E062", "U+1E063", "U+1E064", "U+1E065", "U+1E066", "U+1E067", "U+1E068",
     "U+1E069", "U+1E06A", "U+1E06B", "U+1E06C", "U+1E06D", "U+1E922", "U+1E923", "U+1E924",
     "U+1E925", "U+1E926", "U+1E927", "U+1E928", "U+1E929", "U+1E92A", "U+1E92B", "U+1E92C",
     "U+1E92D", "U+1E92E", "U+1E92F", "U+1E930", "U+1E931", "U+1E932", "U+1E933", "U+1E934",
     "U+1E935", "U+1E936", "U+1E937", "U+1E938", "U+1E939", "U+1E93A", "U+1E93B", "U+1E93C",
     "U+1E93D", "U+1E93E", "U+1E93F", "U+1E940", "U+1E941", "U+1E942", "U+1E943", "U+1F130",
     "U+1F131", "U+1F132", "U+1F133", "U+1F134", "U+1F135", "U+1F136", "U+1F137", "U+1F138",
     "U+1F139", "U+1F13A", "U+1F13B", "U+1F13C", "U+1F13D", "U+1F13E", "U+1F13F", "U+1F140",
     "U+1F141", "U+1F142", "U+1F143", "U+1F144", "U+1F145", "U+1F146", "U+1F147", "U+1F148",
     "U+1F149", "U+1F150", "U+1F151", "U+1F152", "U+1F153", "U+1F154", "U+1F155", "U+1F156",
     "U+1F157", "U+1F158", "U+1F159", "U+1F15A", "U+1F15B", "U+1F15C", "U+1F15D", "U+1F15E",
     "U+1F15F", "U+1F160", "U+1F161", "U+1F162", "U+1F163", "U+1F164", "U+1F165", "U+1F166",
     "U+1F167", "U+1F168", "U+1F169", "U+1F170", "U+1F171", "U+1F172", "U+1F173", "U+1F174",
     "U+1F175", "U+1F176", "U+1F177", "U+1F178", "U+1F179", "U+1F17A", "U+1F17B", "U+1F17C",
     "U+1F17D", "U+1F17E", "U+1F17F", "U+1F180", "U+1F181", "U+1F182", "U+1F183", "U+1F184",
     "U+1F185", "U+1F186", "U+1F187", "U+1F188", "U+1F189"}

\* the characters with the Unicode property Cased
Cased == Range(UpperChars) \cup {"U+0130"} \cup CasedUnchanged

\* the characters with the Unicode property Case_Ignorable
CaseIgnorable ==
    {"'", ".", ":", "^", "U+0060", "¨", "­", "¯",
     "´", "·", "¸", "U+02B0", "U+02B1", "U+02B2", "U+02B3", "U+02B4",
     "U+02B5", "U+02B6", "U+02B7", "U+02B8", "U+02B9", "U+02BA", "U+02BB", "U+02BC",
     "U+02BD", "U+02BE", "U+02BF", "U+02C0", "U+02C1", "U+02C2", "U+02C3", "U+02C4",
     "U+02C5", "U+02C6", "U+02C7", "U+02C8", "U+02C9", "U+02CA", "U+02CB", "U+02CC",
     "U+02CD", "U+02CE", "U+02CF", "U+02D0", "U+02D1", "U+02D2", "U+02D3", "U+02D4",
     "U+02D5", "U+02D6", "U+02D7", "U+02D8", "U+02D9", "U+02DA", "U+02DB", "U+02DC",
     "U+02DD", "U+02DE", "U+02DF", "U+02E0", "U+02E1", "U+02E2", "U+02E3", "U+02E4",
     "U+02E5", "U+02E6", "U+02E7", "U+02E8", "U+02E9", "U+02EA", "U+02EB", "U+02EC",
     "U+02ED", "U+02EE", "U+02EF", "U+02F0", "U+02F1", "U+02F2", "U+02F3", "U+02F4",
     "U+02F5", "U+02F6", "U+02F7", "U+02F8", "U+02F9", "U+02FA", "U+02FB", "U+02FC",
     "U+02FD", "U+02FE", "U+02FF", "U+0300", "U+0301", "U+0302", "U+0303", "U+0304",
     "U+0305", "U+0306", "U+0307", "U+0308", "U+0309", "U+030A", "U+030B", "U+030C",
     "U+030D", "U+030E", "U+030F", "U+0310", "U+0311", "U+0312", "U+0313", "U+0314",
     "U+0315", "U+0316", "U+0317", "U+0318", "U+0319", "U+031A", "U+031B", "U+031C",
     "U+031D", "U+031E", "U+031F", "U+0320", "U+0321", "U+0322", "U+0323", "U+0324",
     "U+0325", "U+0326", "U+0327", "U+0328", "U+0329", "U+032A", "U+032B", "U+032C",
     "U+032D", "U+032E", "U+032F", "U+0330", "U+0331", "U+0332", "U+0333", "U+0334",
     "U+0335", "U+0336", "U+0337", "U+0338", "U+0339", "U+033A", "U+033B", "U+033C",
     "U+033D", "U+033E", "U+033F", "U+0340", "U+0341", "U+0342", "U+0343", "U+0344",
     "U+0345", "U+0346", "U+0347", "U+0348", "U+0349", "U+034A", "U+034B", "U+034C",
     "U+034D", "U+034E", "U+034F", "U+0350", "U+0351", "U+0352", "U+0353", "U+0354",
     "U+0355", "U+0356", "U+0357", "U+0358", "U+0359", "U+035A", "U+035B", "U+035C",
     "U+035D", "U+035E", "U+035F", "U+0360", "U+0361", "U+0362", "U+0363", "U+0364",
     "U+0365", "U+0366", "U+0367", "U+0368", "U+0369", "U+036A", "U+036B", "U+036C",
     "U+036D", "U+036E", "U+036F", "U+0374", "U+0375", "U+037A", "U+0384", "U+0385",
     "U+0387", "U+0483", "U+0484", "U+0485", "U+0486", "U+0487", "U+0488", "U+0489",
     "U+0559", "U+055F", "U+0591", "U+0592", "U+0593", "U+0594", "U+0595", "U+0596",
     "U+0597", "U+0598", "U+0599", "U+059A", "U+059B", "U+059C", "U+059D", "U+059E",
     "U+059F", "U+05A0", "U+05A1", "U+05A2", "U+05A3", "U+05A4", "U+05A5", "U+05A6",
     "U+05A7", "U+05A8", "U+05A9", "U+05AA", "U+05AB", "U+05AC", "U+05AD", "U+05AE",
     "U+05AF", "U+05B0", "U+05B1", "U+05B2", "U+05B3", "U+05B4", "U+05B5", "U+05B6",
     "U+05B7", "U+05B8", "U+05B9", "U+05BA", "U+05BB", "U+05BC", "U+05BD", "U+05BF",
     "U+05C1", "U+05C2", "U+05C4", "U+05C5", "U+05C7", "U+05F4", "U+0600", "U+0601",
     "U+0602", "U+0603", "U+0604", "U+0605", "U+0610", "U+0611", "U+0612", "U+0613",
     "U+0614", "U+0615", "U+0616", "U+0617", "U+0618", "U+0619", "U+061A", "U+061C",
     "U+0640", "U+064B", "U+064C", "U+064D", "U+064E", "U+064F", "U+0650", "U+0651",
     "U+0652", "U+0653", "U+0654", "U+0655", "U+0656", "U+0657", "U+0658", "U+0659",
     "U+065A", "U+065B", "U+065C", "U+065D", "U+065E", "U+065F", "U+0670", "U+06D6",
     "U+06D7", "U+06D8", "U+06D9", "U+06DA", "U+06DB", "U+06DC", "U+06DD", "U+06DF",
     "U+06E0", "U+06E1", "U+06E2", "U+06E3", "U+06E4", "U+06E5", "U+06E6", "U+06E7",
     "U+06E8", "U+06EA", "U+06EB", "U+06EC", "U+06ED", "U+070F", "U+0711", "U+0730",
     "U+0731", "U+0732", "U+0733", "U+0734", "U+0735", "U+0736", "U+0737", "U+0738",
     "U+0739", "U+073A", "U+073B", "U+073C", "U+073D", "U+073E", "U+073F", "U+0740",
     "U+0741", "U+0742", "U+0743", "U+0744", "U+0745", "U+0746", "U+0747", "U+0748",
     "U+0749", "U+074A", "U+07A6", "U+07A7", "U+07A8", "U+07A9", "U+07AA", "U+07AB",
     "U+07AC", "U+07AD", "U+07AE", "U+07AF", "U+07B0", "U+07EB", "U+07EC", "U+07ED",
     "U+07EE", "U+07EF", "U+07F0", "U+07F1", "U+07F2", "U+07F3", "U+07F4", "U+07F5",
     "U+07FA", "U+07FD", "U+0816", "U+0817", "U+0818", "U+0819", "U+081A", "U+081B",
     "U+081C", "U+081D", "U+081E", "U+081F", "U+0820", "U+0821", "U+0822", "U+0823",
     "U+0824", "U+0825", "U+0826", "U+0827", "U+0828", "U+0829", "U+082A", "U+082B",
     "U+082C", "U+082D", "U+0859", "U+085A", "U+085B", "U+0888", "U+0890", "U+0891",
     "U+0898", "U+0899", "U+089A", "U+089B", "U+089C", "U+089D", "U+089E", "U+089F",
     "U+08C9", "U+08CA", "U+08CB", "U+08CC", "U+08CD", "U+08CE", "U+08CF", "U+08D0",
     "U+08D1", "U+08D2", "U+08D3", "U+08D4", "U+08D5", "U+08D6", "U+08D7", "U+08D8",
     "U+08D9", "U+08DA", "U+08DB", "U+08DC", "U+08DD", "U+08DE", "U+08DF", "U+08E0",
     "U+08E1", "U+08E2", "U+08E3", "U+08E4", "U+08E5", "U+08E6", "U+08E7", "U+08E8",
     "U+08E9", "U+08EA", "U+08EB", "U+08EC", "U+08ED", "U+08EE", "U+08EF", "U+08F0",
     "U+08F1", "U+08F2", "U+08F3", "U+08F4", "U+08F5", "U+08F6", "U+08F7", "U+08F8",
     "U+08F9", "U+08FA", "U+08FB", "U+08FC", "U+08FD", "U+08FE", "U+08FF", "U+0900",
     "U+0901", "U+0902", "U+093A", "U+093C", "U+0941", "U+0942", "U+0943", "U+0944",
     "U+0945", "U+0946", "U+0947", "U+0948", "U+094D", "U+0951", "U+0952", "U+0953",
     "U+0954", "U+0955", "U+0956", "U+0957", "U+0962", "U+0963", "U+0971", "U+0981",
     "U+09BC", "U+09C1", "U+09C2", "U+09C3", "U+09C4", "U+09CD", "U+09E2", "U+09E3",
     "U+09FE", "U+0A01", "U+0A02", "U+0A3C", "U+0A41", "U+0A42", "U+0A47", "U+0A48",
     "U+0A4B", "U+0A4C", "U+0A4D", "U+0A51", "U+0A70", "U+0A71", "U+0A75", "U+0A81",
     "U+0A82", "U+0ABC", "U+0AC1", "U+0AC2", "U+0AC3", "U+0AC4", "U+0AC5", "U+0AC7",
     "U+0AC8", "U+0ACD", "U+0AE2", "U+0AE3", "U+0AFA", "U+0AFB", "U+0AFC", "U+0AFD",
     "U+0AFE", "U+0AFF", "U+0B01", "U+0B3C", "U+0B3F", "U+0B41", "U+0B42", "U+0B43",
     "U+0B44", "U+0B4D", "U+0B55", "U+0B56", "U+0B62", "U+0B63", "U+0B82", "U+0BC0",
     "U+0BCD", "U+0C00", "U+0C04", "U+0C3C", "U+0C3E", "U+0C3F", "U+0C40", "U+0C46",
     "U+0C47", "U+0C48", "U+0C4A", "U+0C4B", "U+0C4C", "U+0C4D", "U+0C55", "U+0C56",
     "U+0C62", "U+0C63", "U+0C81", "U+0CBC", "U+0CBF", "U+0CC6", "U+0CCC", "U+0CCD",
     "U+0CE2", "U+0CE3", "U+0D00", "U+0D01", "U+0D3B", "U+0D3C", "U+0D41", "U+0D42",
     "U+0D43", "U+0D44", "U+0D4D", "U+0D62", "U+0D63", "U+0D81", "U+0DCA", "U+0DD2",
     "U+0DD3", "U+0DD4", "U+0DD6", "U+0E31", "U+0E34", "U+0E35", "U+0E36", "U+0E37",
     "U+0E38", "U+0E39", "U+0E3A", "U+0E46", "U+0E47", "U+0E48", "U+0E49", "U+0E4A",
     "U+0E4B", "U+0E4C", "U+0E4D", "U+0E4E", "U+0EB1", "U+0EB4", "U+0EB5", "U+0EB6",
     "U+0EB7", "U+0EB8", "U+0EB9", "U+0EBA", "U+0EBB", "U+0EBC", "U+0EC6", "U+0EC8",
     "U+0EC9", "U+0ECA", "U+0ECB", "U+0ECC", "U+0ECD", "U+0ECE", "U+0F18", "U+0F19",
     "U+0F35", "U+0F37", "U+0F39", "U+0F71", "U+0F72", "U+0F73", "U+0F74", "U+0F75",
     "U+0F76", "U+0F77", "U+0F78", "U+0F79", "U+0F7A", "U+0F7B", "U+0F7C", "U+0F7D",
     "U+0F7E", "U+0F80", "U+0F81", "U+0F82", "U+0F83", "U+0F84", "U+0F86", "U+0F87",
     "U+0F8D", "U+0F8E", "U+0F8F", "U+0F90", "U+0F91", "U+0F92", "U+0F93", "U+0F94",
     "U+0F95", "U+0F96", "U+0F97", "U+0F99", "U+0F9A", "U+0F9B", "U+0F9C", "U+0F9D",
     "U+0F9E", "U+0F9F", "U+0FA0", "U+0FA1", "U+0FA2", "U+0FA3", "U+0FA4", "U+0FA5",
     "U+0FA6", "U+0FA7", "U+0FA8", "U+0FA9", "U+0FAA", "U+0FAB", "U+0FAC", "U+0FAD",
     "U+0FAE", "U+0FAF", "U+0FB0", "U+0FB1", "U+0FB2", "U+0FB3", "U+0FB4", "U+0FB5",
     "U+0FB6", "U+0FB7", "U+0FB8", "U+0FB9", "U+0FBA", "U+0FBB", "U+0FBC", "U+0FC6",
     "U+102D", "U+102E", "U+102F", "U+1030", "U+1032", "U+1033", "U+1034", "U+1035",
     "U+1036", "U+1037", "U+1039", "U+103A", "U+103D", "U+103E", "U+1058", "U+1059",
     "U+105E", "U+105F", "U+1060", "U+1071", "U+1072", "U+1073", "U+1074", "U+1082",
     "U+1085", "U+1086", "U+108D", "U+109D", "U+10FC", "U+135D", "U+135E", "U+135F",
     "U+1712", "U+1713", "U+1714", "U+1732", "U+1733", "U+1752", "U+1753", "U+1772",
     "U+1773", "U+17B4", "U+17B5", "U+17B7", "U+17B8", "U+17B9", "U+17BA", "U+17BB",
     "U+17BC", "U+17BD", "U+17C6", "U+17C9", "U+17CA", "U+17CB", "U+17CC", "U+17CD",
     "U+17CE", "U+17CF", "U+17D0", "U+17D1", "U+17D2", "U+17D3", "U+17D7", "U+17DD",
     "U+180B", "U+180C", "U+180D", "U+180E", "U+180F", "U+1843", "U+1885", "U+1886",
     "U+18A9", "U+1920", "U+1921", "U+1922", "U+1927", "U+1928", "U+1932", "U+1939",
     "U+193A", "U+193B", "U+1A17", "U+1A18", "U+1A1B", "U+1A56", "U+1A58", "U+1A59",
     "U+1A5A", "U+1A5B", "U+1A5C", "U+1A5D", "U+1A5E", "U+1A60", "U+1A62", "U+1A65",
     "U+1A66", "U+1A67", "U+1A68", "U+1A69", "U+1A6A", "U+1A6B", "U+1A6C", "U+1A73",
     "U+1A74", "U+1A75", "U+1A76", "U+1A77", "U+1A78", "U+1A79", "U+1A7A", "U+1A7B",
     "U+1A7C", "U+1A7F", "U+1AA7", "U+1AB0", "U+1AB1", "U+1AB2", "U+1AB3", "U+1AB4",
     "U+1AB5", "U+1AB6", "U+1AB7", "U+1AB8", "U+1AB9", "U+1ABA", "U+1ABB", "U+1ABC",
     "U+1ABD", "U+1ABE", "U+1ABF", "U+1AC0", "U+1AC1", "U+1AC2", "U+1AC3", "U+1AC4",
     "U+1AC5", "U+1AC6", "U+1AC7", "U+1AC8", "U+1AC9", "U+1ACA", "U+1ACB", "U+1ACC",
     "U+1ACD", "U+1ACE", "U+1B00", "U+1B01", "U+1B02", "U+1B03", "U+1B34", "U+1B36",
     "U+1B37", "U+1B38", "U+1B39", "U+1B3A", "U+1B3C", "U+1B42", "U+1B6B", "U+1B6C",
     "U+1B6D", "U+1B6E", "U+1B6F", "U+1B70", "U+1B71", "U+1B72", "U+1B73", "U+1B80",
     "U+1B81", "U+1BA2", "U+1BA3", "U+1BA4", "U+1BA5", "U+1BA8", "U+1BA9", "U+1BAB",
     "U+1BAC", "U+1BAD", "U+1BE6", "U+1BE8", "U+1BE9", "U+1BED", "U+1BEF", "U+1BF0",
     "U+1BF1", "U+1C2C", "U+1C2D", "U+1C2E", "U+1C2F", "U+1C30", "U+1C31", "U+1C32",
     "U+1C33", "U+1C36", "U+1C37", "U+1C78", "U+1C79", "U+1C7A", "U+1C7B", "U+1C7C",
     "U+1C7D", "U+1CD0", "U+1CD1", "U+1CD2", "U+1CD4", "U+1CD5", "U+1CD6", "U+1CD7",
     "U+1CD8", "U+1CD9", "U+1CDA", "U+1CDB", "U+1CDC", "U+1CDD", "U+1CDE", "U+1CDF",
     "U+1CE0", "U+1CE2", "U+1CE3", "U+1CE4", "U+1CE5", "U+1CE6", "U+1CE7", "U+1CE8",
     "U+1CED", "U+1CF4", "U+1CF8", "U+1CF9", "U+1D2C", "U+1D2D", "U+1D2E", "U+1D2F",
     "U+1D30", "U+1D31", "U+1D32", "U+1D33", "U+1D34", "U+1D35", "U+1D36", "U+1D37",
     "U+1D38", "U+1D39", "U+1D3A", "U+1D3B", "U+1D3C", "U+1D3D", "U+1D3E", "U+1D3F",
     "U+1D40", "U+1D41", "U+1D42", "U+1D43", "U+1D44", "U+1D45", "U+1D46", "U+1D47",
     "U+1D48", "U+1D49", "U+1D4A", "U+1D4B", "U+1D4C", "U+1D4D", "U+1D4E", "U+1D4F",
     "U+1D50", "U+1D51", "U+1D52", "U+1D53", "U+1D54", "U+1D55", "U+1D56", "U+1D57",
     "U+1D58", "U+1D59", "U+1D5A", "U+1D5B", "U+1D5C", "U+1D5D", "U+1D5E", "U+1D5F",
     "U+1D60", "U+1D61", "U+1D62", "U+1D63", "U+1D64", "U+1D65", "U+1D66", "U+1D67",
     "U+1D68", "U+1D69", "U+1D6A", "U+1D78", "U+1D9B", "U+1D9C", "U+1D9D", "U+1D9E",
     "U+1D9F", "U+1DA0", "U+1DA1", "U+1DA2", "U+1DA3", "U+1DA4", "U+1DA5", "U+1DA6",
     "U+1DA7", "U+1DA8", "U+1DA9", "U+1DAA", "U+1DAB", "U+1DAC", "U+1DAD", "U+1DAE",
     "U+1DAF", "U+1DB0", "U+1DB1", "U+1DB2", "U+1DB3", "U+1DB4", "U+1DB5", "U+1DB6",
     "U+1DB7", "U+1DB8", "U+1DB9", "U+1DBA", "U+1DBB", "U+1DBC", "U+1DBD", "U+1DBE",
     "U+1DBF", "U+1DC0", "U+1DC1", "U+1DC2", "U+1DC3", "U+1DC4", "U+1DC5", "U+1DC6",
     "U+1DC7", "U+1DC8", "U+1DC9", "U+1DCA", "U+1DCB", "U+1DCC", "U+1DCD", "U+1DCE",
     "U+1DCF", "U+1DD0", "U+1DD1", "U+1DD2", "U+1DD3", "U+1DD4", "U+1DD5", "U+1DD6",
     "U+1DD7", "U+1DD8", "U+1DD9", "U+1DDA", "U+1DDB", "U+1DDC", "U+1DDD", "U+1DDE",
     "U+1DDF", "U+1DE0", "U+1DE1", "U+1DE2", "U+1DE3", "U+1DE4", "U+1DE5", "U+1DE6",
     "U+1DE7", "U+1DE8", "U+1DE9", "U+1DEA", "U+1DEB", "U+1DEC", "U+1DED", "U+1DEE",
     "U+1DEF", "U+1DF0", "U+1DF1", "U+1DF2", "U+1DF3", "U+1DF4", "U+1DF5", "U+1DF6",
     "U+1DF7", "U+1DF8", "U+1DF9", "U+1DFA", "U+1DFB", "U+1DFC", "U+1DFD", "U+1DFE",
     "U+1DFF", "U+1FBD", "U+1FBF", "U+1FC0", "U+1FC1", "U+1FCD", "U+1FCE", "U+1FCF",
     "U+1FDD", "U+1FDE", "U+1FDF", "U+1FED", "U+1FEE", "U+1FEF", "U+1FFD", "U+1FFE",
     "U+200B", "U+200C", "U+200D", "U+200E", "U+200F", "U+2018", "U+2019", "U+2024",
     "U+2027", "U+202A", "U+202B", "U+202C", "U+202D", "U+202E", "U+2060", "U+2061",
     "U+2062", "U+2063", "U+2064", "U+2066", "U+2067", "U+2068", "U+2069", "U+206A",
     "U+206B", "U+206C", "U+206D", "U+206E", "U+206F", "U+2071", "U+207F", "U+2090",
     "U+2091", "U+2092", "U+2093", "U+2094", "U+2095", "U+2096", "U+2097", "U+2098",
     "U+2099", "U+209A", "U+209B", "U+209C", "U+20D0", "U+20D1", "U+20D2", "U+20D3",
     "U+20D4", "U+20D5", "U+20D6", "U+20D7", "U+20D8", "U+20D9", "U+20DA", "U+20DB",
     "U+20DC", "U+20DD", "U+20DE", "U+20DF", "U+20E0", "U+20E1", "U+20E2", "U+20E3",
     "U+20E4", "U+20E5", "U+20E6", "U+20E7", "U+20E8", "U+20E9", "U+20EA", "U+20EB",
     "U+20EC", "U+20ED", "U+20EE", "U+20EF", "U+20F0", "U+2C7C", "U+2C7D", "U+2CEF",
     "U+2CF0", "U+2CF1", "U+2D6F", "U+2D7F", "U+2DE0", "U+2DE1", "U+2DE2", "U+2DE3",
     "U+2DE4", "U+2DE5", "U+2DE6", "U+2DE7", "U+2DE8", "U+2DE9", "U+2DEA", "U+2DEB",
     "U+2DEC", "U+2DED", "U+2DEE", "U+2DEF", "U+2DF0", "U+2DF1", "U+2DF2", "U+2DF3",
     "U+2DF4", "U+2DF5", "U+2DF6", "U+2DF7", "U+2DF8", "U+2DF9", "U+2DFA", "U+2DFB",
     "U+2DFC", "U+2DFD", "U+2DFE", "U+2DFF", "U+2E2F", "U+3005", "U+302A", "U+302B",
     "U+302C", "U+302D", "U+3031", "U+3032", "U+3033", "U+3034", "U+3035", "U+303B",
     "U+3099", "U+309A", "U+309B", "U+309C", "U+309D", "U+309E", "U+30FC", "U+30FD",
     "U+30FE", "U+A015", "U+A4F8", "U+A4F9", "U+A4FA", "U+A4FB", "U+A4FC", "U+A4FD",
     "U+A60C", "U+A66F", "U+A670", "U+A671", "U+A672", "U+A674", "U+A675", "U+A676",
     "U+A677", "U+A678", "U+A679", "U+A67A", "U+A67B", "U+A67C", "U+A67D", "U+A67F",
     "U+A69C", "U+A69D", "U+A69E", "U+A69F", "U+A6F0", "U+A6F1", "U+A700", "U+A701",
     "U+A702", "U+A703", "U+A704", "U+A705", "U+A706", "U+A707", "U+A708", "U+A709",
     "U+A70A", "U+A70B", "U+A70C", "U+A70D", "U+A70E", "U+A70F", "U+A710", "U+A711",
     "U+A712", "U+A713", "U+A714", "U+A715", "U+A716", "U+A717", "U+A718", "U+A719",
     "U+A71A", "U+A71B", "U+A71C", "U+A71D", "U+A71E", "U+A71F", "U+A720", "U+A721",
     "U+A770", "U+A788", "U+A789", "U+A78A", "U+A7F2", "U+A7F3", "U+A7F4", "U+A7F8",
     "U+A7F9", "U+A802", "U+A806", "U+A80B", "U+A825", "U+A826", "U+A82C", "U+A8C4",
     "U+A8C5", "U+A8E0", "U+A8E1", "U+A8E2", "U+A8E3", "U+A8E4", "U+A8E5", "U+A8E6",
     "U+A8E7", "U+A8E8", "U+A8E9", "U+A8EA", "U+A8EB", "U+A8EC", "U+A8ED", "U+A8EE",
     "U+A8EF", "U+A8F0", "U+A8F1", "U+A8FF", "U+A926", "U+A927", "U+A928", "U+A929",
     "U+A92A", "U+A92B", "U+A92C", "U+A92D", "U+A947", "U+A948", "U+A949", "U+A94A",
     "U+A94B", "U+A94C", "U+A94D", "U+A94E", "U+A94F", "U+A950", "U+A951", "U+A980",
     "U+A981", "U+A982", "U+A9B3", "U+A9B6", "U+A9B7", "U+A9B8", "U+A9B9", "U+A9BC",
     "U+A9BD", "U+A9CF", "U+A9E5", "U+A9E6", "U+AA29", "U+AA2A", "U+AA2B", "U+AA2C",
     "U+AA2D", "U+AA2E", "U+AA31", "U+AA32", "U+AA35", "U+AA36", "U+AA43", "U+AA4C",
     "U+AA70", "U+AA7C", "U+AAB0", "U+AAB2", "U+AAB3", "U+AAB4", "U+AAB7", "U+AAB8",
     "U+AABE", "U+AABF", "U+AAC1", "U+AADD", "U+AAEC", "U+AAED", "U+AAF3", "U+AAF4",
     "U+AAF6", "U+AB5B", "U+AB5C", "U+AB5D", "U+AB5E", "U+AB5F", "U+AB69", "U+AB6A",
     "U+AB6B", "U+ABE5", "U+ABE8", "U+ABED", "U+FB1E", "U+FBB2", "U+FBB3", "U+FBB4",
     "U+FBB5", "U+FBB6", "U+FBB7", "U+FBB8", "U+FBB9", "U+FBBA", "U+FBBB", "U+FBBC",
     "U+FBBD", "U+FBBE", "U+FBBF", "U+FBC0", "U+FBC1", "U+FBC2", "U+FE00", "U+FE01",
     "U+FE02", "U+FE03", "U+FE04", "U+FE05", "U+FE06", "U+FE07", "U+FE08", "U+FE09",
     "U+FE0A", "U+FE0B", "U+FE0C", "U+FE0D", "U+FE0E", "U+FE0F", "U+FE13", "U+FE20",
     "U+FE21", "U+FE22", "U+FE23", "U+FE24", "U+FE25", "U+FE26", "U+FE27", "U+FE28",
     "U+FE29", "U+FE2A", "U+FE2B", "U+FE2C", "U+FE2D", "U+FE2E", "U+FE2F", "U+FE52",
     "U+FE55", "U+FEFF", "U+FF07", "U+FF0E", "U+FF1A", "U+FF3E", "U+FF40", "U+FF70",
     "U+FF9E", "U+FF9F", "U+FFE3", "U+FFF9", "U+FFFA", "U+FFFB", "U+101FD", "U+102E0",
     "U+10376", "U+10377", "U+10378", "U+10379", "U+1037A", "U+10780", "U+10781", "U+10782",
     "U+10783", "U+10784", "U+10785", "U+10787", "U+10788", "U+10789", "U+1078A", "U+1078B",
     "U+1078C", "U+1078D", "U+1078E", "U+1078F", "U+10790", "U+10791", "U+10792", "U+10793",
     "U+10794", "U+10795", "U+10796", "U+10797", "U+10798", "U+10799", "U+1079A", "U+1079B",
     "U+1079C", "U+1079D", "U+1079E", "U+1079F", "U+107A0", "U+107A1", "U+107A2", "U+107A3",
     "U+107A4", "U+107A5", "U+107A6", "U+107A7", "U+107A8", "U+107A9", "U+107AA", "U+107AB",
     "U+107AC", "U+107AD", "U+107AE", "U+107AF", "U+107B0", "U+107B2", "U+107B3", "U+107B4",
     "U+107B5", "U+107B6", "U+107B7", "U+107B8", "U+107B9", "U+107BA", "U+10A01", "U+10A02",
     "U+10A03", "U+10A05", "U+10A06", "U+10A0C", "U+10A0D", "U+10A0E", "U+10A0F", "U+10A38",
     "U+10A39", "U+10A3A", "U+10A3F", "U+10AE5", "U+10AE6", "U+10D24", "U+10D25", "U+10D26",
     "U+10D27", "U+10EAB", "U+10EAC", "U+10EFD", "U+10EFE", "U+10EFF", "U+10F46", "U+10F47",
     "U+10F48", "U+10F49", "U+10F4A", "U+10F4B", "U+10F4C", "U+10F4D", "U+10F4E", "U+10F4F",
     "U+10F50", "U+10F82", "U+10F83", "U+10F84", "U+10F85", "U+11001", "U+11038", "U+11039",
     "U+1103A", "U+1103B", "U+1103C", "U+1103D", "U+1103E", "U+1103F", "U+11040", "U+11041",
     "U+11042", "U+11043", "U+11044", "U+11045", "U+11046", "U+11070", "U+11073", "U+11074",
     "U+1107F", "U+11080", "U+11081", "U+110B3", "U+110B4", "U+110B5", "U+110B6", "U+110B9",
     "U+110BA", "U+110BD", "U+110C2", "U+110CD", "U+11100", "U+11101", "U+11102", "U+11127",
     "U+11128", "U+11129", "U+1112A", "U+1112B", "U+1112D", "U+1112E", "U+1112F", "U+11130",
     "U+11131", "U+11132", "U+11133", "U+11134", "U+11173", "U+11180", "U+11181", "U+111B6",
     "U+111B7", "U+111B8", "U+111B9", "U+111BA", "U+111BB", "U+111BC", "U+111BD", "U+111BE",
     "U+111C9", "U+111CA", "U+111CB", "U+111CC", "U+111CF", "U+1122F", "U+11230", "U+11231",
     "U+11234", "U+11236", "U+11237", "U+1123E", "U+11241", "U+112DF", "U+112E3", "U+112E4",
     "U+112E5", "U+112E6", "U+112E7", "U+112E8", "U+112E9", "U+112EA", "U+11300", "U+11301",
     "U+1133B", "U+1133C", "U+11340", "U+11366", "U+11367", "U+11368", "U+11369", "U+1136A",
     "U+1136B", "U+1136C", "U+11370", "U+11371", "U+11372", "U+11373", "U+11374", "U+11438",
     "U+11439", "U+1143A", "U+1143B", "U+1143C", "U+1143D", "U+1143E", "U+1143F", "U+11442",
     "U+11443", "U+11444", "U+11446", "U+1145E", "U+114B3", "U+114B4", "U+114B5", "U+114B6",
     "U+114B7", "U+114B8", "U+114BA", "U+114BF", "U+114C0", "U+114C2", "U+114C3", "U+115B2",
     "U+115B3", "U+115B4", "U+115B5", "U+115BC", "U+115BD", "U+115BF", "U+115C0", "U+115DC",
     "U+115DD", "U+11633", "U+11634", "U+11635", "U+11636", "U+11637", "U+11638", "U+11639",
     "U+1163A", "U+1163D", "U+1163F", "U+11640", "U+116AB", "U+116AD", "U+116B0", "U+116B1",
     "U+116B2", "U+116B3", "U+116B4", "U+116B5", "U+116B7", "U+1171D", "U+1171E", "U+1171F",
     "U+11722", "U+11723", "U+11724", "U+11725", "U+11727", "U+11728", "U+11729", "U+1172A",
     "U+1172B", "U+1182F", "U+11830", "U+11831", "U+11832", "U+11833", "U+11834", "U+11835",
     "U+11836", "U+11837", "U+11839", "U+1183A", "U+1193B", "U+1193C", "U+1193E", "U+11943",
     "U+119D4", "U+119D5", "U+119D6", "U+119D7", "U+119DA", "U+119DB", "U+119E0", "U+11A01",
     "U+11A02", "U+11A03", "U+11A04", "U+11A05", "U+11A06", "U+11A07", "U+11A08", "U+11A09",
     "U+11A0A", "U+11A33", "U+11A34", "U+11A35", "U+11A36", "U+11A37", "U+11A38", "U+11A3B",
     "U+11A3C", "U+11A3D", "U+11A3E", "U+11A47", "U+11A51", "U+11A52", "U+11A53", "U+11A54",
     "U+11A55", "U+11A56", "U+11A59", "U+11A5A", "U+11A5B", "U+11A8A", "U+11A8B", "U+11A8C",
     "U+11A8D", "U+11A8E", "U+11A8F", "U+11A90", "U+11A91", "U+11A92", "U+11A93", "U+11A94",
     "U+11A95", "U+11A96", "U+11A98", "U+11A99", "U+11C30", "U+11C31", "U+11C32", "U+11C33",
     "U+11C34", "U+11C35", "U+11C36", "U+11C38", "U+11C39", "U+11C3A", "U+11C3B", "U+11C3C",
     "U+11C3D", "U+11C3F", "U+11C92", "U+11C93", "U+11C94", "U+11C95", "U+11C96", "U+11C97",
     "U+11C98", "U+11C99", "U+11C9A", "U+11C9B", "U+11C9C", "U+11C9D", "U+11C9E", "U+11C9F",
     "U+11CA0", "U+11CA1", "U+11CA2", "U+11CA3", "U+11CA4", "U+11CA5", "U+11CA6", "U+11CA7",
     "U+11CAA", "U+11CAB", "U+11CAC", "U+11CAD", "U+11CAE", "U+11CAF", "U+11CB0", "U+11CB2",
     "U+11CB3", "U+11CB5", "U+11CB6", "U+11D31", "U+11D32", "U+11D33", "U+11D34", "U+11D35",
     "U+11D36", "U+11D3A", "U+11D3C", "U+11D3D", "U+11D3F", "U+11D40", "U+11D41", "U+11D42",
     "U+11D43", "U+11D44", "U+11D45", "U+11D47", "U+11D90", "U+11D91", "U+11D95", "U+11D97",
     "U+11EF3", "U+11EF4", "U+11F00", "U+11F01", "U+11F36", "U+11F37", "U+11F38", "U+11F39",
     "U+11F3A", "U+11F40", "U+11F42", "U+13430", "U+13431", "U+13432", "U+13433", "U+13434",
     "U+13435", "U+13436", "U+13437", "U+13438", "U+13439", "U+1343A", "U+1343B", "U+1343C",
     "U+1343D", "U+1343E", "U+1343F", "U+13440", "U+13447", "U+13448", "U+13449", "U+1344A",
     "U+1344B", "U+1344C", "U+1344D", "U+1344E", "U+1344F", "U+13450", "U+13451", "U+13452",
     "U+13453", "U+13454", "U+13455", "U+16AF0", "U+16AF1", "U+16AF2", "U+16AF3", "U+16AF4",
     "U+16B30", "U+16B31", "U+16B32", "U+16B33", "U+16B34", "U+16B35", "U+16B36", "U+16B40",
     "U+16B41", "U+16B42", "U+16B43", "U+16F4F", "U+16F8F", "U+16F90", "U+16F91", "U+16F92",
     "U+16F93", "U+16F94", "U+16F95", "U+16F96", "U+16F97", "U+16F98", "U+16F99", "U+16F9A",
     "U+16F9B", "U+16F9C", "U+16F9D", "U+16F9E", "U+16F9F", "U+16FE0", "U+16FE1", "U+16FE3",
     "U+16FE4", "U+1AFF0", "U+1AFF1", "U+1AFF2", "U+1AFF3", "U+1AFF5", "U+1AFF6", "U+1AFF7",
     "U+1AFF8", "U+1AFF9", "U+1AFFA", "U+1AFFB", "U+1AFFD", "U+1AFFE", "U+1BC9D", "U+1BC9E",
     "U+1BCA0", "U+1BCA1", "U+1BCA2", "U+1BCA3", "U+1CF00", "U+1CF01", "U+1CF02", "U+1CF03",
     "U+1CF04", "U+1CF05", "U+1CF06", "U+1CF07", "U+1CF08", "U+1CF09", "U+1CF0A", "U+1CF0B",
     "U+1CF0C", "U+1CF0D", "U+1CF0E", "U+1CF0F", "U+1CF10", "U+1CF11", "U+1CF12", "U+1CF13",
     "U+1CF14", "U+1CF15", "U+1CF16", "U+1CF17", "U+1CF18", "U+1CF19", "U+1CF1A", "U+1CF1B",
     "U+1CF1C", "U+1CF1D", "U+1CF1E", "U+1CF1F", "U+1CF20", "U+1CF21", "U+1CF22", "U+1CF23",
     "U+1CF24", "U+1CF25", "U+1CF26", "U+1CF27", "U+1CF28", "U+1CF29", "U+1CF2A", "U+1CF2B",
     "U+1CF2C", "U+1CF2D", "U+1CF30", "U+1CF31", "U+1CF32", "U+1CF33", "U+1CF34", "U+1CF35",
     "U+1CF36", "U+1CF37", "U+1CF38", "U+1CF39", "U+1CF3A", "U+1CF3B", "U+1CF3C", "U+1CF3D",
     "U+1CF3E", "U+1CF3F", "U+1CF40", "U+1CF41", "U+1CF42", "U+1CF43", "U+1CF44", "U+1CF45",
     "U+1CF46", "U+1D167", "U+1D168", "U+1D169", "U+1D173", "U+1D174", "U+1D175", "U+1D176",
     "U+1D177", "U+1D178", "U+1D179", "U+1D17A", "U+1D17B", "U+1D17C", "U+1D17D", "U+1D17E",
     "U+1D17F", "U+1D180", "U+1D181", "U+1D182", "U+1D185", "U+1D186", "U+1D187", "U+1D188",
     "U+1D189", "U+1D18A", "U+1D18B", "U+1D1AA", "U+1D1AB", "U+1D1AC", "U+1D1AD", "U+1D242",
     "U+1D243", "U+1D244", "U+1DA00", "U+1DA01", "U+1DA02", "U+1DA03", "U+1DA04", "U+1DA05",
     "U+1DA06", "U+1DA07", "U+1DA08", "U+1DA09", "U+1DA0A", "U+1DA0B", "U+1DA0C", "U+1DA0D",
     "U+1DA0E", "U+1DA0F", "U+1DA10", "U+1DA11", "U+1DA12", "U+1DA13", "U+1DA14", "U+1DA15",
     "U+1DA16", "U+1DA17", "U+1DA18", "U+1DA19", "U+1DA1A", "U+1DA1B", "U+1DA1C", "U+1DA1D",
     "U+1DA1E", "U+1DA1F", "U+1DA20", "U+1DA21", "U+1DA22", "U+1DA23", "U+1DA24", "U+1DA25",
     "U+1DA26", "U+1DA27", "U+1DA28", "U+1DA29", "U+1DA2A", "U+1DA2B", "U+1DA2C", "U+1DA2D",
     "U+1DA2E", "U+1DA2F", "U+1DA30", "U+1DA31", "U+1DA32", "U+1DA33", "U+1DA34", "U+1DA35",
     "U+1DA36", "U+1DA3B", "U+1DA3C", "U+1DA3D", "U+1DA3E", "U+1DA3F", "U+1DA40", "U+1DA41",
     "U+1DA42", "U+1DA43", "U+1DA44", "U+1DA45", "U+1DA46", "U+1DA47", "U+1DA48", "U+1DA49",
     "U+1DA4A", "U+1DA4B", "U+1DA4C", "U+1DA4D", "U+1DA4E", "U+1DA4F", "U+1DA50", "U+1DA51",
     "U+1DA52", "U+1DA53", "U+1DA54", "U+1DA55", "U+1DA56", "U+1DA57", "U+1DA58", "U+1DA59",
     "U+1DA5A", "U+1DA5B", "U+1DA5C", "U+1DA5D", "U+1DA5E", "U+1DA5F", "U+1DA60", "U+1DA61",
     "U+1DA62", "U+1DA63", "U+1DA64", "U+1DA65", "U+1DA66", "U+1DA67", "U+1DA68", "U+1DA69",
     "U+1DA6A", "U+1DA6B", "U+1DA6C", "U+1DA75", "U+1DA84", "U+1DA9B", "U+1DA9C", "U+1DA9D",
     "U+1DA9E", "U+1DA9F", "U+1DAA1", "U+1DAA2", "U+1DAA3", "U+1DAA4", "U+1DAA5", "U+1DAA6",
     "U+1DAA7", "U+1DAA8", "U+1DAA9", "U+1DAAA", "U+1DAAB", "U+1DAAC", "U+1DAAD", "U+1DAAE",
     "U+1DAAF", "U+1E000", "U+1E001", "U+1E002", "U+1E003", "U+1E004", "U+1E005", "U+1E006",
     "U+1E008", "U+1E009", "U+1E00A", "U+1E00B", "U+1E00C", "U+1E00D", "U+1E00E", "U+1E00F",
     "U+1E010", "U+1E011", "U+1E012", "U+1E013", "U+1E014", "U+1E015", "U+1E016", "U+1E017",
     "U+1E018", "U+1E01B", "U+1E01C", "U+1E01D", "U+1E01E", "U+1E01F", "U+1E020", "U+1E021",
     "U+1E023", "U+1E024", "U+1E026", "U+1E027", "U+1E028", "U+1E029", "U+1E02A", "U+1E030",
     "U+1E031", "U+1E032", "U+1E033", "U+1E034", "U+1E035", "U+1E036", "U+1E037", "U+1E038",
     "U+1E039", "U+1E03A", "U+1E03B", "U+1E03C", "U+1E03D", "U+1E03E", "U+1E03F", "U+1E040",
     "U+1E041", "U+1E042", "U+1E043", "U+1E044", "U+1E045", "U+1E046", "U+1E047", "U+1E048",
     "U+1E049", "U+1E04A", "U+1E04B", "U+1E04C", "U+1E04D", "U+1E04E", "U+1E04F", "U+1E050",
     "U+1E051", "U+1E052", "U+1E053", "U+1E054", "U+1E055", "U+1E056", "U+1E057", "U+1E058",
     "U+1E059", "U+1E05A", "U+1E05B", "U+1E05C", "U+1E05D", "U+1E05E", "U+1E05F", "U+1E060",
     "U+1E061", "U+1E062", "U+1E063", "U+1E064", "U+1E065", "U+1E066", "U+1E067", "U+1E068",
     "U+1E069", "U+1E06A", "U+1E06B", "U+1E06C", "U+1E06D", "U+1E08F", "U+1E130", "U+1E131",
     "U+1E132", "U+1E133", "U+1E134", "U+1E135", "U+1E136", "U+1E137", "U+1E138", "U+1E139",
     "U+1E13A", "U+1E13B", "U+1E13C", "U+1E13D", "U+1E2AE", "U+1E2EC", "U+1E2ED", "U+1E2EE",
     "U+1E2EF", "U+1E4EB", "U+1E4EC", "U+1E4ED", "U+1E4EE", "U+1E4EF", "U+1E8D0", "U+1E8D1",
     "U+1E8D2", "U+1E8D3", "U+1E8D4", "U+1E8D5", "U+1E8D6", "U+1E944", "U+1E945", "U+1E946",
     "U+1E947", "U+1E948", "U+1E949", "U+1E94A", "U+1E94B", "U+1F3FB", "U+1F3FC", "U+1F3FD",
     "U+1F3FE", "U+1F3FF", "U+E0001", "U+E0020", "U+E0021", "U+E0022", "U+E0023", "U+E0024",
     "U+E0025", "U+E0026", "U+E0027", "U+E0028", "U+E0029", "U+E002A", "U+E002B", "U+E002C",
     "U+E002D", "U+E002E", "U+E002F", "U+E0030", "U+E0031", "U+E0032", "U+E0033", "U+E0034",
     "U+E0035", "U+E0036", "U+E0037", "U+E0038", "U+E0039", "U+E003A", "U+E003B", "U+E003C",
     "U+E003D", "U+E003E", "U+E003F", "U+E0040", "U+E0041", "U+E0042", "U+E0043", "U+E0044",
     "U+E0045", "U+E0046", "U+E0047", "U+E0048", "U+E0049", "U+E004A", "U+E004B", "U+E004C",
     "U+E004D", "U+E004E", "U+E004F", "U+E0050", "U+E0051", "U+E0052", "U+E0053", "U+E0054",
     "U+E0055", "U+E0056", "U+E0057", "U+E0058", "U+E0059", "U+E005A", "U+E005B", "U+E005C",
     "U+E005D", "U+E005E", "U+E005F", "U+E0060", "U+E0061", "U+E0062", "U+E0063", "U+E0064",
     "U+E0065", "U+E0066", "U+E0067", "U+E0068", "U+E0069", "U+E006A", "U+E006B", "U+E006C",
     "U+E006D", "U+E006E", "U+E006F", "U+E0070", "U+E0071", "U+E0072", "U+E0073", "U+E0074",
     "U+E0075", "U+E0076", "U+E0077", "U+E0078", "U+E0079", "U+E007A", "U+E007B", "U+E007C",
     "U+E007D", "U+E007E", "U+E007F", "U+E0100", "U+E0101", "U+E0102", "U+E0103", "U+E0104",
     "U+E0105", "U+E0106", "U+E0107", "U+E0108", "U+E0109", "U+E010A", "U+E010B", "U+E010C",
     "U+E010D", "U+E010E", "U+E010F", "U+E0110", "U+E0111", "U+E0112", "U+E0113", "U+E0114",
     "U+E0115", "U+E0116", "U+E0117", "U+E0118", "U+E0119", "U+E011A", "U+E011B", "U+E011C",
     "U+E011D", "U+E011E", "U+E011F", "U+E0120", "U+E0121", "U+E0122", "U+E0123", "U+E0124",
     "U+E0125", "U+E0126", "U+E0127", "U+E0128", "U+E0129", "U+E012A", "U+E012B", "U+E012C",
     "U+E012D", "U+E012E", "U+E012F", "U+E0130", "U+E0131", "U+E0132", "U+E0133", "U+E0134",
     "U+E0135", "U+E0136", "U+E0137", "U+E0138", "U+E0139", "U+E013A", "U+E013B", "U+E013C",
     "U+E013D", "U+E013E", "U+E013F", "U+E0140", "U+E0141", "U+E0142", "U+E0143", "U+E0144",
     "U+E0145", "U+E0146", "U+E0147", "U+E0148", "U+E0149", "U+E014A", "U+E014B", "U+E014C",
     "U+E014D", "U+E014E", "U+E014F", "U+E0150", "U+E0151", "U+E0152", "U+E0153", "U+E0154",
     "U+E0155", "U+E0156", "U+E0157", "U+E0158", "U+E0159", "U+E015A", "U+E015B", "U+E015C",
     "U+E015D", "U+E015E", "U+E015F", "U+E0160", "U+E0161", "U+E0162", "U+E0163", "U+E0164",
     "U+E0165", "U+E0166", "U+E0167", "U+E0168", "U+E0169", "U+E016A", "U+E016B", "U+E016C",
     "U+E016D", "U+E016E", "U+E016F", "U+E0170", "U+E0171", "U+E0172", "U+E0173", "U+E0174",
     "U+E0175", "U+E0176", "U+E0177", "U+E0178", "U+E0179", "U+E017A", "U+E017B", "U+E017C",
     "U+E017D", "U+E017E", "U+E017F", "U+E0180", "U+E0181", "U+E0182", "U+E0183", "U+E0184",
     "U+E0185", "U+E0186", "U+E0187", "U+E0188", "U+E0189", "U+E018A", "U+E018B", "U+E018C",
     "U+E018D", "U+E018E", "U+E018F", "U+E0190", "U+E0191", "U+E0192", "U+E0193", "U+E0194",
     "U+E0195", "U+E0196", "U+E0197", "U+E0198", "U+E0199", "U+E019A", "U+E019B", "U+E019C",
     "U+E019D", "U+E019E", "U+E019F", "U+E01A0", "U+E01A1", "U+E01A2", "U+E01A3", "U+E01A4",
     "U+E01A5", "U+E01A6", "U+E01A7", "U+E01A8", "U+E01A9", "U+E01AA", "U+E01AB", "U+E01AC",
     "U+E01AD", "U+E01AE", "U+E01AF", "U+E01B0", "U+E01B1", "U+E01B2", "U+E01B3", "U+E01B4",
     "U+E01B5", "U+E01B6", "U+E01B7", "U+E01B8", "U+E01B9", "U+E01BA", "U+E01BB", "U+E01BC",
     "U+E01BD", "U+E01BE", "U+E01BF", "U+E01C0", "U+E01C1", "U+E01C2", "U+E01C3", "U+E01C4",
     "U+E01C5", "U+E01C6", "U+E01C7", "U+E01C8", "U+E01C9", "U+E01CA", "U+E01CB", "U+E01CC",
     "U+E01CD", "U+E01CE", "U+E01CF", "U+E01D0", "U+E01D1", "U+E01D2", "U+E01D3", "U+E01D4",
     "U+E01D5", "U+E01D6", "U+E01D7", "U+E01D8", "U+E01D9", "U+E01DA", "U+E01DB", "U+E01DC",
     "U+E01DD", "U+E01DE", "U+E01DF", "U+E01E0", "U+E01E1", "U+E01E2", "U+E01E3", "U+E01E4",
     "U+E01E5", "U+E01E6", "U+E01E7", "U+E01E8", "U+E01E9", "U+E01EA", "U+E01EB", "U+E01EC",
     "U+E01ED", "U+E01EE", "U+E01EF"}

\* The capital sigma s[i] is final: a cased character stands before it and
\* none after it, the case-ignorable characters in between passed over.
FinalSigma(s, i) ==
    /\ \E j \in 1..(i - 1) :
           /\ s[j] \notin CaseIgnorable
           /\ \A k \in (j + 1)..(i - 1) : s[k] \in CaseIgnorable
           /\ s[j] \in Cased
    /\ ~\E j \in (i + 1)..Len(s) :
           /\ s[j] \notin CaseIgnorable
           /\ \A k \in (i + 1)..(j - 1) : s[k] \in CaseIgnorable
           /\ s[j] \in Cased

\* the lower case of the character s[i] of s
LowerAt(s, i) ==
    IF s[i] = "U+03A3" THEN (IF FinalSigma(s, i) THEN <<"U+03C2">> ELSE <<"U+03C3">>)
    ELSE LowerChar(s[i])

\* the lower case of s[lo..hi]
RECURSIVE LowerRun(_, _, _)
LowerRun(s, lo, hi) ==
    IF lo > hi THEN <<>>
    ELSE IF lo = hi THEN LowerAt(s, lo)
    ELSE LowerRun(s, lo, (lo + hi) \div 2) \o LowerRun(s, (lo + hi) \div 2 + 1, hi)

\* s.lower()
lower(s) == LowerRun(s, 1, Len(s))

RECURSIVE lstrip(_, _)
lstrip(s, chars) ==
    IF s # <<>> /\ s[1] \in chars THEN lstrip(Tail(s), chars) ELSE s

RECURSIVE rstrip(_, _)
rstrip(s, chars) ==
    IF s # <<>> /\ s[Len(s)] \in chars THEN rstrip(SubSeq(s, 1, Len(s) - 1), chars) ELSE s

strip(s, chars) == rstrip(lstrip(s, chars), chars)

\* str.split(): the maximal runs of non-whitespace, in order.  A run starts at
\* a non-whitespace character that is first or follows whitespace, and ends
\* before the next whitespace or at the end of the text.
split(text) ==
    LET n == Len(text)
        starts == {i \in 1..n : text[i] \notin Whitespace
                                /\ (i = 1 \/ text[i - 1] \in Whitespace)}
        ends == {j \in 1..n : text[j] \notin Whitespace
                              /\ (j = n \/ text[j + 1] \in Whitespace)}
        StartOf(k) == CHOOSE i \in starts : Cardinality({m \in starts : m <= i}) = k
        EndOf(k) == CHOOSE j \in ends : Cardinality({m \in ends : m <= j}) = k
    IN  [k \in 1..Cardinality(starts) |-> SubSeq(text, StartOf(k), EndOf(k))]

\* [t.strip(<punctuation>).lower() for t in text.split() if t.strip()]
\* the filter strips whitespace only, so it tests the piece before the
\* punctuation is stripped
RECURSIVE TokenizePieces(_)
TokenizePieces(pieces) ==
    IF pieces = <<>> THEN <<>>
    ELSE (IF strip(pieces[1], Whitespace) # <<>>
          THEN <<lower(strip(pieces[1], StripChars))>>
          ELSE <<>>) \o TokenizePieces(Tail(pieces))

tokenize(text) == TokenizePieces(split(text))

\* collections.Counter(tokens)
Counter(tokens) ==
    [tok \in Range(tokens) |-> Cardinality({i \in 1..Len(tokens) : tokens[i] = tok})]

\* the keys of Counter(tokens) in the order a dict keeps them: each token at
\* its first occurrence
CounterKeys(tokens) ==
    LET firsts == {i \in 1..Len(tokens) : \A j \in 1..(i - 1) : tokens[j] # tokens[i]}
        FirstAt(k) == CHOOSE i \in firsts : Cardinality({m \in firsts : m <= i}) = k
    IN  SubSeq([k \in 1..Cardinality(firsts) |-> tokens[FirstAt(k)]],
               1, Cardinality(firsts))

RECURSIVE SumOver(_, _)
SumOver(f, S) ==
    IF S = {} THEN 0
    ELSE LET x == CHOOSE y \in S : TRUE
         IN  f[x] + SumOver(f, S \ {x})

\* variant of normalize: the counts are left as they are
normalizeMutantRaw(counter, keys) == [cnt |-> counter, n2 |-> 1, keys |-> keys]

\* norm = sqrt(sum(v * v)) or 1.0 ; {k: v / norm}, for a counter and its keys
\* in dict order
normalize(counter, keys) ==
    LET sq == SumOver([k \in DOMAIN counter |-> counter[k] * counter[k]], DOMAIN counter)
    IN  [cnt |-> counter, n2 |-> IF sq = 0 THEN 1 ELSE sq, keys |-> keys]

embed_text(text) == normalize(Counter(tokenize(text)), CounterKeys(tokenize(text)))

\* the float vector[tok] of an embedded vector: v / norm with norm = math.sqrt(n2)
Weight(vector, tok) == FDiv(FInt(vector.cnt[tok]), FSqrt(vector.n2))

(***************************************************************************)
(* retrieval.py: InMemoryVectorIndex                                       *)
(***************************************************************************)
\* add(doc_id, text, summary, tags, modality, sources): the IndexedDocument built
\* at retrieval.py:61-68; tags or [] and sources or [] turn None into the empty list
IndexedDocument(a) ==
    [id |-> a.doc_id,
     vector |-> embed_text(a.text),
     summary |-> a.summary,
     tags |-> IF Falsy(a.tags) THEN <<>> ELSE a.tags.val,
     modality |-> a.modality,
     sources |-> IF Falsy(a.sources) THEN <<>> ELSE a.sources.val]

\* variant of IndexAdd: an id already present is replaced in place
IndexAddMutantUpsert(ds, a) ==
    IF \E i \in 1..Len(ds) : ds[i].id = a.doc_id
    THEN [i \in 1..Len(ds) |-> IF ds[i].id = a.doc_id THEN IndexedDocument(a) ELSE ds[i]]
    ELSE Append(ds, IndexedDocument(a))

\* InMemoryVectorIndex.add: self._docs.append(...)
IndexAdd(ds, a) == Append(ds, IndexedDocument(a))

\* InMemoryVectorIndex.similarity:
\* sum(query_vector.get(tok, 0.0) * weight for tok, weight in doc_vector.items()),
\* the float the code computes, its terms in the order of the document's keys
similarity(query_vector, doc_vector) ==
    LET keys == doc_vector.keys
        terms == [i \in 1..Len(keys) |->
                     IF keys[i] \in DOMAIN query_vector.cnt
                     THEN FMul(Weight(query_vector, keys[i]), Weight(doc_vector, keys[i]))
                     ELSE FInt(0)]
    IN  FSum(SubSeq(terms, 1, Len(keys)), Len(keys))

\* variant of Cosine: a common token counts once, whatever its weights
CosineMutantPresence(query_vector, doc_vector) ==
    [num |-> Cardinality(DOMAIN doc_vector.cnt \cap DOMAIN query_vector.cnt),
     den2 |-> query_vector.n2 * doc_vector.n2]

\* the exact value of that sum, the pair [num, den2] standing for
\* num / sqrt(den2): the weights are counts over sqrt(n2)
Cosine(query_vector, doc_vector) ==
    LET common == DOMAIN doc_vector.cnt \cap DOMAIN query_vector.cnt
    IN  [num |-> SumOver([tok \in common |-> query_vector.cnt[tok] * doc_vector.cnt[tok]],
                         common),
         den2 |-> query_vector.n2 * doc_vector.n2]

\* the largest n2 * n2 of two vectors whose score is rounded without the
\* floating point
MaxExact == 40000

\* round(score, 4) at retrieval.py:82, in 1e-4 units.  The float score of two
\* vectors with T common tokens is within (T + 6) * 2^-53 of the exact
\* num / sqrt(den2), and that is either a tie or at least 1 / (8.0004e8 * den2)
\* from it.  T * T <= den2, so for den2 <= MaxExact the second is the larger
\* and only a tie needs the float.
RoundedScore(query_vector, doc_vector) ==
    LET cos == Cosine(query_vector, doc_vector)
        r == FloorScaled(cos.num, cos.den2, 0, Scale)
        odd == (2 * r + 1) * (2 * r + 1)
    IN  IF \/ query_vector.n2 > MaxExact \div doc_vector.n2
           \/ /\ LeqScaled(odd, cos.den2, 4 * cos.num * cos.num)
              /\ ~LtScaled(odd, cos.den2, 4 * cos.num * cos.num)
        THEN PyRound4(similarity(query_vector, doc_vector))
        ELSE IF LtScaled(odd, cos.den2, 4 * cos.num * cos.num) THEN r + 1
        ELSE r

\* variant of InsertDesc: a hit goes in front of the hits of equal score
RECURSIVE InsertDescMutantTiesReversed(_, _)
InsertDescMutantTiesReversed(sorted, h) ==
    IF sorted = <<>> THEN <<h>>
    ELSE IF sorted[1].score > h.score
         THEN <<sorted[1]>> \o InsertDescMutantTiesReversed(Tail(sorted), h)
         ELSE <<h>> \o sorted

\* sorted(hits, key=lambda h: h.score, reverse=True): stable, descending
RECURSIVE InsertDesc(_, _)
InsertDesc(sorted, h) ==
    IF sorted = <<>> THEN <<h>>
    ELSE IF sorted[1].score >= h.score
         THEN <<sorted[1]>> \o InsertDesc(Tail(sorted), h)
         ELSE <<h>> \o sorted

RECURSIVE SortedDesc(_)
SortedDesc(hits) ==
    IF hits = <<>> THEN <<>>
    ELSE InsertDesc(SortedDesc(SubSeq(hits, 1, Len(hits) - 1)), hits[Len(hits)])

\* the RetrievalHit of one document (retrieval.py:78-88)
RetrievalHit(query_vector, doc) ==
    [id |-> doc.id,
     score |-> RoundedScore(query_vector, doc.vector),
     summary |-> doc.summary,
     tags |-> doc.tags,
     modality |-> doc.modality,
     sources |-> doc.sources]

\* the list scored of query: the hit of every stored document, in insertion
\* order (retrieval.py:76-88)
ScoredHits(ds, query_vector) ==
    [i \in 1..Len(ds) |-> RetrievalHit(query_vector, ds[i])]

\* variant of IndexQuery: documents of similarity 0 give no hit
IndexQueryMutantDropZero(ds, text, top_k) ==
    SliceTo(SortedDesc(SelectSeq(ScoredHits(ds, embed_text(text)),
                                 LAMBDA h : h.score > 0)),
            top_k)

\* InMemoryVectorIndex.query(text, top_k)
IndexQuery(ds, text, top_k) ==
    SliceTo(SortedDesc(ScoredHits(ds, embed_text(text))), top_k)

\* variant of IndexReset: the first document survives
IndexResetMutantKeepFirst(ds) == SubSeq(ds, 1, Min(1, Len(ds)))

\* InMemoryVectorIndex.reset: self._docs = []
IndexReset(ds) == <<>>

(***************************************************************************)
(* retrieval.py: RetrievalEngine                                           *)
(* An engine is [docs, tag_boost, source_boost].                           *)
(***************************************************************************)
RetrievalEngine(tb, sb) == [docs |-> <<>>, tag_boost |-> tb, source_boost |-> sb]

\* " ".join([slice_.summary, *slice_.highlights])
RECURSIVE JoinSpace(_)
JoinSpace(parts) ==
    IF Len(parts) = 0 THEN <<>>
    ELSE IF Len(parts) = 1 THEN parts[1]
    ELSE parts[1] \o <<" ">> \o JoinSpace(Tail(parts))

\* variant of SliceAddArgs: of the highlights only the first is joined
SliceAddArgsMutantFirstHighlight(slice) ==
    [doc_id |-> slice.id,
     text |-> JoinSpace(<<slice.summary>> \o (IF slice.highlights = <<>> THEN <<>>
                                              ELSE <<slice.highlights[1]>>)),
     summary |-> slice.summary,
     tags |-> Some(slice.tags),
     modality |-> slice.modality,
     sources |-> Some(slice.source_refs)]

\* the keyword arguments of the index.add call at retrieval.py:111-118
SliceAddArgs(slice) ==
    [doc_id |-> slice.id,
     text |-> JoinSpace(<<slice.summary>> \o slice.highlights),
     summary |-> slice.summary,
     tags |-> Some(slice.tags),
     modality |-> slice.modality,
     sources |-> Some(slice.source_refs)]

\* RetrievalEngine.ingest_bundle: the index after the loop over bundle.slices
RECURSIVE IngestDocs(_, _)
IngestDocs(ds, slices) ==
    IF slices = <<>> THEN ds
    ELSE IngestDocs(IndexAdd(ds, SliceAddArgs(slices[1])), Tail(slices))

\* variant of AdjustedHit: the tag bonus is subtracted
AdjustedHitMutantTagPenalty(hit, query_tokens, tb, sb) ==
    LET tag_bonus == tb * Cardinality(query_tokens \cap Range(hit.tags))
        source_bonus == IF hit.sources # <<>> THEN sb ELSE 0
    IN  [hit EXCEPT !.score = hit.score - tag_bonus + source_bonus]

\* variant of AdjustedHit: every tag occurrence and every source counts
AdjustedHitMutantWeighted(hit, query_tokens, tb, sb) ==
    LET tag_bonus == tb * Cardinality({i \in 1..Len(hit.tags) : hit.tags[i] \in query_tokens})
        source_bonus == sb * Len(hit.sources)
    IN  [hit EXCEPT !.score = hit.score + tag_bonus + source_bonus]

\* RetrievalEngine.query(text, top_k).hits
AdjustedHit(hit, query_tokens, tb, sb) ==
    LET tag_bonus == tb * Cardinality(query_tokens \cap Range(hit.tags))
        source_bonus == IF hit.sources # <<>> THEN sb ELSE 0
    IN  [hit EXCEPT !.score = hit.score + tag_bonus + source_bonus]

\* the list hits of query before it is sorted: every hit of the index with its
\* boosts added (retrieval.py:123-130)
AdjustedHits(raw, query_tokens, tb, sb) ==
    [i \in 1..Len(raw) |-> AdjustedHit(raw[i], query_tokens, tb, sb)]

\* variant of EngineQuery: every document is boosted before the top_k are taken
EngineQueryMutantBoostFirst(ds, tb, sb, text, top_k) ==
    SliceTo(SortedDesc(AdjustedHits(IndexQuery(ds, text, Len(ds)),
                                    Range(tokenize(text)), tb, sb)),
            top_k)

EngineQuery(ds, tb, sb, text, top_k) ==
    SliceTo(SortedDesc(AdjustedHits(IndexQuery(ds, text, top_k),
                                    Range(tokenize(text)), tb, sb)),
            top_k)

\* RetrievalEngine.reset: self.index.reset()
EngineReset(ds) == IndexReset(ds)

(***************************************************************************)
(* retrieval_benchmark.py: RetrievalBenchmarkRunner                        *)
(* A case is [id, bundle, query, relevant_ids, top_k]; bundle is the       *)
(* sequence bundle.slices.                                                 *)
(***************************************************************************)
\* [hid for hid in hit_ids if hid in case.relevant_ids]
RECURSIVE RelevantFound(_, _)
RelevantFound(hit_ids, relevant_ids) ==
    IF hit_ids = <<>> THEN <<>>
    ELSE (IF hit_ids[1] \in Range(relevant_ids) THEN <<hit_ids[1]>> ELSE <<>>)
         \o RelevantFound(Tail(hit_ids), relevant_ids)

\* variant of RetrievalBenchmarkResult: precision is taken over top_k
RetrievalBenchmarkResultMutantTopK(case, hits) ==
    LET hit_ids == [i \in 1..Len(hits) |-> hits[i].id]
        relevant_found == RelevantFound(hit_ids, case.relevant_ids)
    IN  [case_id |-> case.id,
         hits |-> hits,
         precision_at_k |-> Round4Ratio(Len(relevant_found), Max(case.top_k, 1)),
         recall_at_k |-> Round4Ratio(Len(relevant_found), Max(Len(case.relevant_ids), 1)),
         relevant_found |-> relevant_found]

\* variant of RetrievalBenchmarkResult: the two denominators are exchanged
RetrievalBenchmarkResultMutantSwapped(case, hits) ==
    LET hit_ids == [i \in 1..Len(hits) |-> hits[i].id]
        relevant_found == RelevantFound(hit_ids, case.relevant_ids)
    IN  [case_id |-> case.id,
         hits |-> hits,
         precision_at_k |-> Round4Ratio(Len(relevant_found), Max(Len(case.relevant_ids), 1)),
         recall_at_k |-> Round4Ratio(Len(relevant_found), Max(Len(hits), 1)),
         relevant_found |-> relevant_found]

\* the RetrievalBenchmarkResult of one case from the hits of its query
\* (retrieval_benchmark.py:69-80)
RetrievalBenchmarkResult(case, hits) ==
    LET hit_ids == [i \in 1..Len(hits) |-> hits[i].id]
        relevant_found == RelevantFound(hit_ids, case.relevant_ids)
    IN  [case_id |-> case.id,
         hits |-> hits,
         precision_at_k |-> Round4Ratio(Len(relevant_found), Max(Len(hits), 1)),
         recall_at_k |-> Round4Ratio(Len(relevant_found), Max(Len(case.relevant_ids), 1)),
         relevant_found |-> relevant_found]

\* variant of CaseDocs: the reset before the ingest is left out
CaseDocsMutantNoReset(ds, case) == IngestDocs(ds, case.bundle)

\* one iteration of the loop of run (retrieval_benchmark.py:64-81): the index after
\* engine.reset() and engine.ingest_bundle(case.bundle)
CaseDocs(ds, case) == IngestDocs(EngineReset(ds), case.bundle)

\* run(cases) on an engine whose index holds ds: the per-case results and the
\* index left behind
RECURSIVE RunLoop(_, _, _, _, _)
RunLoop(ds, tb, sb, cases, per_case) ==
    IF cases = <<>> THEN [per_case |-> per_case, docs |-> ds]
    ELSE LET case == cases[1]
             ds1 == CaseDocs(ds, case)
         IN  RunLoop(ds1, tb, sb, Tail(cases),
                     Append(per_case,
                            RetrievalBenchmarkResult(
                                case, EngineQuery(ds1, tb, sb, case.query, case.top_k))))

\* the RetrievalBenchmarkSuite returned by run (retrieval_benchmark.py:83-92)
RetrievalBenchmarkSuite(per_case) ==
    [results |-> per_case,
     macro_precision |->
        Round4Mean([i \in 1..Len(per_case) |-> per_case[i].precision_at_k]),
     macro_recall |->
        Round4Mean([i \in 1..Len(per_case) |-> per_case[i].recall_at_k])]

\* what run returns and leaves behind after its loop: [suite, docs]
RunReturn(out) == [suite |-> RetrievalBenchmarkSuite(out.per_case), docs |-> out.docs]

\* RetrievalBenchmarkRunner(engine).run(cases): [suite, docs]
run(engine, cases) ==
    RunReturn(RunLoop(engine.docs, engine.tag_boost, engine.source_boost, cases, <<>>))

(***************************************************************************)
(* retrieval_benchmark.py: AutomatedBenchmarkRunner                        *)
(* adapters is the ordered mapping name -> factory, a sequence of          *)
(* [name, tag_boost, source_boost]: the factory of an entry builds         *)
(* RetrievalEngine(tag_boost, source_boost), as the lambdas of             *)
(* default_adapter_factories do.                                           *)
(***************************************************************************)
\* default_adapter_factories()
default_adapter_factories ==
    <<[name |-> "baseline_bow", tag_boost |-> 0, source_boost |-> 0],
      [name |-> "tag_bias", tag_boost |-> 2000, source_boost |-> 0],
      [name |-> "source_bias", tag_boost |-> 0, source_boost |-> 500]>>

\* __post_init__: self.adapters = self.adapters or default_adapter_factories()
PostInitAdapters(arg) ==
    IF Falsy(arg) THEN default_adapter_factories ELSE arg.val

\* list(self.adapters.keys())
AdapterKeys(ad) == [i \in 1..Len(ad) |-> ad[i].name]

\* self.adapters[name]()
Factory(ad, name) ==
    LET e == ad[CHOOSE i \in 1..Len(ad) : ad[i].name = name]
    IN  RetrievalEngine(e.tag_boost, e.source_boost)

\* variant of ResolveNames: a name given twice is kept once
RECURSIVE Dedup(_)
Dedup(names) ==
    IF names = <<>> THEN <<>>
    ELSE LET rest == Dedup(SubSeq(names, 1, Len(names) - 1))
         IN  IF names[Len(names)] \in Range(rest) THEN rest
             ELSE Append(rest, names[Len(names)])

ResolveNamesMutantDedup(ad, adapter_names) ==
    IF Falsy(adapter_names) THEN AdapterKeys(ad) ELSE Dedup(adapter_names.val)

\* names = adapter_names or list(self.adapters.keys())
ResolveNames(ad, adapter_names) ==
    IF Falsy(adapter_names) THEN AdapterKeys(ad) ELSE adapter_names.val

\* variant of DequeAppend: a plain list, never trimmed
DequeAppendMutantUnbounded(dq, x, limit) == Append(dq, x)

\* variant of DequeAppend: a full buffer drops the new entry instead of the oldest
DequeAppendMutantDropNewest(dq, x, limit) ==
    IF Len(dq) >= limit THEN dq ELSE Append(dq, x)

\* deque(maxlen=limit).append(x)
DequeAppend(dq, x, limit) ==
    IF limit = 0 THEN dq
    ELSE IF Len(dq) >= limit THEN Append(Tail(dq), x)
    ELSE Append(dq, x)

\* variant of AutomatedBenchmarkSummary: the history snapshot is always included
AutomatedBenchmarkSummaryMutantAlwaysHistory(runs, hist, track_history) ==
    [runs |-> runs,
     macro_precision |->
        Round4Mean([i \in 1..Len(runs) |-> runs[i].suite.macro_precision]),
     macro_recall |->
        Round4Mean([i \in 1..Len(runs) |-> runs[i].suite.macro_recall]),
     history |-> Some(hist)]

\* variant of AutomatedBenchmarkSummary: the means are cut off after 4 decimals
AutomatedBenchmarkSummaryMutantFloor(runs, hist, track_history) ==
    [runs |-> runs,
     macro_precision |->
        SumSeq([i \in 1..Len(runs) |-> runs[i].suite.macro_precision])
            \div Max(Len(runs), 1),
     macro_recall |->
        SumSeq([i \in 1..Len(runs) |-> runs[i].suite.macro_recall])
            \div Max(Len(runs), 1),
     history |-> IF track_history THEN Some(hist) ELSE None]

\* variant of AutomatedBenchmarkSummary: a summary without runs reports perfect macros
AutomatedBenchmarkSummaryMutantEmptyPerfect(runs, hist, track_history) ==
    [runs |-> runs,
     macro_precision |->
        IF runs = <<>> THEN Scale
        ELSE Round4Mean([i \in 1..Len(runs) |-> runs[i].suite.macro_precision]),
     macro_recall |->
        IF runs = <<>> THEN Scale
        ELSE Round4Mean([i \in 1..Len(runs) |-> runs[i].suite.macro_recall]),
     history |-> IF track_history THEN Some(hist) ELSE None]

\* the AutomatedBenchmarkSummary built at retrieval_benchmark.py:226-238
AutomatedBenchmarkSummary(runs, hist, track_history) ==
    [runs |-> runs,
     macro_precision |->
        Round4Mean([i \in 1..Len(runs) |-> runs[i].suite.macro_precision]),
     macro_recall |->
        Round4Mean([i \in 1..Len(runs) |-> runs[i].suite.macro_recall]),
     history |-> IF track_history THEN Some(hist) ELSE None]

(***************************************************************************)
(* Inputs.  Texts are sequences of characters.                             *)
(***************************************************************************)
TxtAB == <<"a", " ", "b">>
TxtA == <<"a">>
TxtCdot == <<"C", ".">>
TxtB == <<"b">>
TxtABA == <<"a", " ", "b", " ", "a">>
TxtC == <<"c">>
TxtDot == <<".">>
TxtEmpty == <<>>

\* KnowledgeSlice values (io.py:66-76)
Slice1 ==
    [id |-> "s1", summary |-> TxtAB, highlights |-> <<>>, modality |-> "text",
     source_refs |-> <<"ref">>, tags |-> <<>>]
Slice2 ==
    [id |-> "s2", summary |-> TxtA, highlights |-> <<>>, modality |-> "image",
     source_refs |-> <<>>, tags |-> <<TxtA, TxtA>>]
Slice3 ==
    [id |-> "s1", summary |-> TxtCdot, highlights |-> <<TxtB>>, modality |-> "audio",
     source_refs |-> <<"r1", "r2">>, tags |-> <<TxtC>>]

\* an item with several highlights
Slice4 ==
    [id |-> "s4", summary |-> TxtA, highlights |-> <<TxtB, TxtCdot, TxtB>>,
     modality |-> "mixed", source_refs |-> <<"r1", "r2">>, tags |-> <<TxtB>>]

BundlePool == {<<>>, <<Slice1, Slice2>>, <<Slice3>>}

\* keyword arguments of direct index.add calls; tags and sources default to None
AddPool ==
    {SliceAddArgs(Slice1), SliceAddArgs(Slice3),
     [doc_id |-> "s2", text |-> TxtDot, summary |-> TxtEmpty, tags |-> None,
      modality |-> "mixed", sources |-> None]}

QueryPool == {TxtABA, TxtC, TxtDot}

\* top_k: negative, zero, below and at the capacity of the modelled index
TopKs == {-1, 0, 1, MaxDocs}

Case1 ==
    [id |-> "c1", bundle |-> <<Slice1, Slice2>>, query |-> TxtABA,
     relevant_ids |-> <<"s2">>, top_k |-> 1]
Case2 ==
    [id |-> "c2", bundle |-> <<Slice3>>, query |-> TxtC,
     relevant_ids |-> <<"s1", "zz">>, top_k |-> 2]

CaseLists == {<<>>, <<Case1>>, <<Case1, Case2>>, <<Case2, Case1>>}

\* a case without relevant ids and a case without corpus
Case3 ==
    [id |-> "c3", bundle |-> <<Slice1>>, query |-> TxtABA,
     relevant_ids |-> <<>>, top_k |-> 1]

Case4 ==
    [id |-> "c4", bundle |-> <<>>, query |-> TxtABA,
     relevant_ids |-> <<"s1">>, top_k |-> MaxDocs]

\* a relevant document with one tag among the query's tokens, ranked by the
\* index just above a document that is not relevant and has two of them
Slice5 ==
    [id |-> "s5", summary |-> TxtAB, highlights |-> <<>>, modality |-> "text",
     source_refs |-> <<>>, tags |-> <<TxtA>>]

Slice6 ==
    [id |-> "s6", summary |-> TxtA, highlights |-> <<>>, modality |-> "text",
     source_refs |-> <<>>, tags |-> <<TxtA, TxtB>>]

Case6 ==
    [id |-> "c6", bundle |-> <<Slice5, Slice6, Slice3>>, query |-> TxtABA,
     relevant_ids |-> <<"s5">>, top_k |-> -1]

\* a case on which the adapters differ
Case5 ==
    [id |-> "c5", bundle |-> <<Slice1, Slice2, Slice3>>, query |-> TxtABA,
     relevant_ids |-> <<"s1">>, top_k |-> -1]

\* one relevant hit of three: with Case1 the per-case precisions sum to an odd
\* number of 1e-4 units, so that their mean is halfway between two multiples
Case7 ==
    [id |-> "c7", bundle |-> <<Slice5, Slice6, Slice3>>, query |-> TxtABA,
     relevant_ids |-> <<"s5">>, top_k |-> MaxDocs]

EmptyCaseLists == {<<>>, <<Case3, Case4>>}

\* run_all calls in which no name resolves, or no case is given
EmptyRunAllArgs ==
    {<<<<Case3, Case4>>, Some(<<"nope", "nil">>), TRUE>>,
     <<<<>>, Some(<<"baseline_bow">>), FALSE>>}

\* entry.get(key, default) on a dict entry, a function from its keys to values
Get(entry, key, default) == IF key \in DOMAIN entry THEN entry[key] ELSE default

\* KnowledgeSlice.ensure_highlights (io.py:71-74): empty highlights are dropped
ensure_highlights(value) == SelectSeq(value, LAMBDA h : h # <<>>)

\* the KnowledgeSlice one loop of from_texts builds from a dict entry; key is
\* "content", "caption" or "transcript" (io.py:101-110, 113-122, 125-134).
\* The values of the modelled entries are strings and lists of strings, which
\* str and list return as they are; str(entry.get("id")) of an entry without
\* id is str(None), the string "None".
FromEntry(entry, key, modality) ==
    [id |-> Get(entry, "id", "None"),
     summary |-> Get(entry, key, <<>>),
     highlights |-> ensure_highlights(<<Get(entry, key, <<>>)>>),
     modality |-> modality,
     source_refs |-> Get(entry, "sources", <<>>),
     tags |-> Get(entry, "tags", <<>>)]

\* the slices one loop of from_texts appends: for entry in entries or []
EntrySlices(entries, key, modality) ==
    IF Falsy(entries) THEN <<>>
    ELSE [i \in 1..Len(entries.val) |-> FromEntry(entries.val[i], key, modality)]

\* KnowledgeBundle.from_texts(texts=..., images=..., audio=...).slices; each
\* argument is None or Some list of dict entries (io.py:88-135)
from_texts(texts, images, audio) ==
    EntrySlices(texts, "content", "text")
        \o EntrySlices(images, "caption", "image")
        \o EntrySlices(audio, "transcript", "audio")

\* the texts of the first case of default_benchmark_cases()
TxtDiagramQuery ==
    <<"a", "t", "t", "e", "n", "t", "i", "o", "n", " ", "d", "i", "a", "g",
      "r", "a", "m", " ", "f", "o", "r", " ", "t", "r", "a", "n", "s", "f",
      "o", "r", "m", "e", "r", "s">>

TxtTransformer ==
    <<"T", "r", "a", "n", "s", "f", "o", "r", "m", "e", "r", " ", "p", "a",
      "p", "e", "r", " ", "o", "v", "e", "r", "v", "i", "e", "w", " ", "w",
      "i", "t", "h", " ", "a", "t", "t", "e", "n", "t", "i", "o", "n", " ",
      "d", "i", "a", "g", "r", "a", "m", "s", " ", "a", "n", "d", " ", "l",
      "a", "y", "e", "r", " ", "n", "o", "r", "m", "s">>

TxtCnn ==
    <<"C", "N", "N", " ", "a", "r", "c", "h", "i", "t", "e", "c", "t", "u",
      "r", "e", " ", "w", "i", "t", "h", " ", "p", "o", "o", "l", "i", "n",
      "g", " ", "l", "a", "y", "e", "r", "s", " ", "a", "n", "d", " ", "f",
      "e", "a", "t", "u", "r", "e", " ", "m", "a", "p", "s">>

TxtHeatmap ==
    <<"A", " ", "h", "e", "a", "t", "m", "a", "p", " ", "s", "h", "o", "w",
      "i", "n", "g", " ", "t", "r", "a", "n", "s", "f", "o", "r", "m", "e",
      "r", " ", "a", "t", "t", "e", "n", "t", "i", "o", "n", " ", "w", "e",
      "i", "g", "h", "t", "s", " ", "o", "v", "e", "r", " ", "t", "o", "k",
      "e", "n", "s">>

TagNlp ==
    <<"n", "l", "p">>

TagAttention ==
    <<"a", "t", "t", "e", "n", "t", "i", "o", "n">>

TagCv ==
    <<"c", "v">>

TagVisualization ==
    <<"v", "i", "s", "u", "a", "l", "i", "z", "a", "t", "i", "o", "n">>

\* default_benchmark_cases()[0]
ResearchDiagram ==
    [id |-> "research-diagram",
     bundle |-> from_texts(
        Some(<<[id |-> "text-transformer", content |-> TxtTransformer,
                tags |-> <<TagNlp, TagAttention>>],
               [id |-> "text-cv", content |-> TxtCnn, tags |-> <<TagCv>>]>>),
        Some(<<[id |-> "image-attention", caption |-> TxtHeatmap,
                tags |-> <<TagAttention, TagVisualization>>]>>),
        None),
     query |-> TxtDiagramQuery,
     relevant_ids |-> <<"text-transformer", "image-attention">>,
     top_k |-> 3]

\* the texts of the second case of default_benchmark_cases()
TxtSpeechQuery ==
    <<"m", "e", "e", "t", "i", "n", "g", " ", "a", "u", "d", "i", "o", " ",
      "s", "u", "m", "m", "a", "r", "y">>

TxtMinutes ==
    <<"M", "i", "n", "u", "t", "e", "s", " ", "f", "r", "o", "m", " ", "t",
      "h", "e", " ", "d", "e", "s", "i", "g", "n", " ", "r", "e", "v", "i",
      "e", "w", " ", "c", "o", "v", "e", "r", "i", "n", "g", " ", "l", "a",
      "t", "e", "n", "c", "y", " ", "a", "n", "d", " ", "t", "h", "r", "o",
      "u", "g", "h", "p", "u", "t">>

TxtRfc ==
    <<"R", "F", "C", " ", "d", "r", "a", "f", "t", " ", "w", "i", "t", "h",
      " ", "p", "r", "o", "t", "o", "c", "o", "l", " ", "c", "h", "a", "n",
      "g", "e", "s", " ", "u", "n", "r", "e", "l", "a", "t", "e", "d", " ",
      "t", "o", " ", "m", "e", "e", "t", "i", "n", "g", "s">>

TxtBrief ==
    <<"Q", "u", "i", "c", "k", " ", "a", "u", "d", "i", "o", " ", "b", "r",
      "i", "e", "f", " ", "r", "e", "c", "a", "p", "p", "i", "n", "g", " ",
      "t", "h", "e", " ", "m", "e", "e", "t", "i", "n", "g", " ", "t", "a",
      "k", "e", "a", "w", "a", "y", "s", " ", "a", "n", "d", " ", "a", "c",
      "t", "i", "o", "n", " ", "i", "t", "e", "m", "s">>

TagMeeting ==
    <<"m", "e", "e", "t", "i", "n", "g">>

TagSummary ==
    <<"s", "u", "m", "m", "a", "r", "y">>

TagRfc ==
    <<"r", "f", "c">>

TagAudio ==
    <<"a", "u", "d", "i", "o">>

\* default_benchmark_cases()[1]
SpeechNotes ==
    [id |-> "speech-notes",
     bundle |-> from_texts(
        Some(<<[id |-> "text-minutes", content |-> TxtMinutes,
                tags |-> <<TagMeeting, TagSummary>>],
               [id |-> "text-rfc", content |-> TxtRfc, tags |-> <<TagRfc>>]>>),
        None,
        Some(<<[id |-> "audio-brief", transcript |-> TxtBrief,
                tags |-> <<TagMeeting, TagAudio>>]>>)),
     query |-> TxtSpeechQuery,
     relevant_ids |-> <<"audio-brief", "text-minutes">>,
     top_k |-> 3]

\* from_texts given entries that lack an id, a body, tags or sources, and an
\* entry whose body is empty
SparseBundle ==
    from_texts(Some(<<[content |-> TxtAB], [id |-> "t2", content |-> TxtEmpty,
                                             sources |-> <<"ref">>]>>),
               Some(<<[id |-> "i1", tags |-> <<TxtA>>]>>),
               Some(<<>>))

\* a case over that bundle; its relevant id is the id from_texts gives an
\* entry without one
SparseCase ==
    [id |-> "sparse", bundle |-> SparseBundle, query |-> TxtABA,
     relevant_ids |-> <<"None">>, top_k |-> 2]

\* the benchmark cases one case is drawn from: corpus (with and without a
\* repeated id), query, relevant_ids and top_k vary independently
CaseBundles == {<<>>, <<Slice1, Slice2>>, <<Slice1, Slice2, Slice3>>}

CaseQueries == {TxtABA, TxtC}

\* 160 relevant ids, two of them ids of the corpus: 1/160 and 3/160 lie, as
\* decimals, halfway between two multiples of 1e-4
ManyRelevant ==
    SubSeq([i \in 1..160 |-> IF i = 1 THEN "s1" ELSE IF i = 2 THEN "s2" ELSE "zz"],
           1, 160)

RelevantPool == {<<>>, <<"s1">>, <<"s2">>, <<"s1", "zz">>, ManyRelevant}

CasePool ==
    {[id |-> "c", bundle |-> b, query |-> q, relevant_ids |-> r, top_k |-> k] :
        b \in CaseBundles, q \in CaseQueries, r \in RelevantPool, k \in TopKs}

\* tag_boost values an engine is compared under (1e-4 units)
TagBoosts == {-1000, 0, 2000, 5000}

\* boosts, up to far above any raw score, a query is repeated under
LargeBoosts == {0, 2000, 500000}

BoostPairs == {<<0, 0>>, <<2000, 500>>}

\* adapters arguments of the AutomatedBenchmarkRunner constructor
AdapterArgs ==
    {None,
     Some(<<[name |-> "tag_bias", tag_boost |-> 2000, source_boost |-> 0],
            [name |-> "baseline_bow", tag_boost |-> 0, source_boost |-> 0]>>)}

\* arguments <<cases, adapter_names, track_history>> of run_all: adapter_names
\* omitted, empty, with an unregistered name, with a repeated name, with only an
\* unregistered name; cases empty and non-empty; history tracked and not
RunAllArgs ==
    {<<<<Case1, Case2>>, None, TRUE>>,
     <<<<Case5>>, Some(<<>>), FALSE>>,
     <<<<Case2, Case1>>, Some(<<"tag_bias", "nope", "baseline_bow">>), TRUE>>,
     <<<<>>, Some(<<"baseline_bow", "baseline_bow">>), TRUE>>,
     <<<<Case1, Case2>>, Some(<<"nope">>), TRUE>>,
     <<<<Case1>>, Some(<<"tag_bias">>), FALSE>>,
     <<<<Case6>>, Some(<<"baseline_bow", "tag_bias">>), FALSE>>,
     <<<<Case7, Case1>>, Some(<<"baseline_bow">>), FALSE>>}

(***************************************************************************)
(* State machine 1: one AutomatedBenchmarkRunner.                          *)
(* run_all is taken in steps, one per name of its loop, so that the states *)
(* between two appends of one call are states of the model.                *)
(***************************************************************************)
IdleCall ==
    [pc |-> "idle", cases |-> <<>>, adapter_names |-> None, track_history |-> FALSE,
     names |-> <<>>, i |-> 1, runs |-> <<>>, summary |-> None, history0 |-> <<>>,
     single_pass |-> FALSE, unread |-> <<>>]

IdleOp == [op |-> "none", arg |-> None, result |-> None, inner |-> None, before |-> 0]

\* AutomatedBenchmarkRunner(adapters=arg, history_limit=limit); deque(maxlen=limit)
\* raises for a negative limit, so no runner with one exists
Init ==
    /\ docs = <<>>
    /\ tag_boost = 0
    /\ source_boost = 0
    /\ addLog = <<>>
    /\ lastOp = IdleOp
    /\ \E arg \in AdapterArgs : adapters = PostInitAdapters(arg)
    /\ history_limit \in 0..MaxLimit
    /\ history = <<>>
    /\ appended = <<>>
    /\ call = IdleCall
    /\ ncalls = 0

\* run_all entered: names resolved, runs = [] (retrieval_benchmark.py:208-209).
\* cases is the sequence the argument yields; unread is what iterating the
\* argument yields from now on: all of it for a list, which every for loop
\* reads from its start, and what no loop has read yet for a single-pass iterator.
RunAllBegin(cases, adapter_names, track_history) ==
    /\ call.pc # "loop"
    /\ ncalls < MaxCalls
    /\ ncalls' = ncalls + 1
    /\ call' = [pc |-> "loop", cases |-> cases, adapter_names |-> adapter_names,
                track_history |-> track_history,
                names |-> ResolveNames(adapters, adapter_names),
                i |-> 1, runs |-> <<>>, summary |-> None, history0 |-> history,
                single_pass |-> FALSE, unread |-> cases]
    /\ UNCHANGED <<adapters, history_limit, history, appended>>
    /\ UNCHANGED indexVars

\* run_all entered with cases given as an iterator, e.g. iter(list) or a generator
RunAllBeginIter(cases, adapter_names, track_history) ==
    /\ call.pc # "loop"
    /\ ncalls < MaxCalls
    /\ ncalls' = ncalls + 1
    /\ call' = [pc |-> "loop", cases |-> cases, adapter_names |-> adapter_names,
                track_history |-> track_history,
                names |-> ResolveNames(adapters, adapter_names),
                i |-> 1, runs |-> <<>>, summary |-> None, history0 |-> history,
                single_pass |-> TRUE, unread |-> cases]
    /\ UNCHANGED <<adapters, history_limit, history, appended>>
    /\ UNCHANGED indexVars

\* loop body, name not registered: continue (retrieval_benchmark.py:212-213)
RunAllSkip ==
    /\ call.pc = "loop"
    /\ call.i <= Len(call.names)
    /\ call.names[call.i] \notin Range(AdapterKeys(adapters))
    /\ call' = [call EXCEPT !.i = @ + 1]
    /\ UNCHANGED <<adapters, history_limit, history, appended, ncalls>>
    /\ UNCHANGED indexVars

\* the engine the loop body benchmarks for a name (retrieval_benchmark.py:214)
LoopEngine(ad, name) == Factory(ad, name)

\* loop body, name registered (retrieval_benchmark.py:214-224).  duration_ms is a
\* wall-clock measurement and is not modelled; serial identifies the result object.
RunAllAdapter ==
    /\ call.pc = "loop"
    /\ call.i <= Len(call.names)
    /\ call.names[call.i] \in Range(AdapterKeys(adapters))
    /\ \E result \in {[adapter |-> call.names[call.i],
                         suite |-> run(LoopEngine(adapters, call.names[call.i]),
                                       call.unread).suite,
                         serial |-> <<ncalls, call.i>>]} :
           /\ call' = [call EXCEPT !.i = @ + 1, !.runs = Append(@, result),
                                   !.unread = IF call.single_pass THEN <<>> ELSE @]
           /\ IF call.track_history
              THEN /\ history' = DequeAppend(history, result, history_limit)
                   /\ appended' = Append(appended, result)
              ELSE UNCHANGED <<history, appended>>
    /\ UNCHANGED <<adapters, history_limit, ncalls>>
    /\ UNCHANGED indexVars

\* loop finished: the summary is built and returned (retrieval_benchmark.py:226-238)
RunAllReturn ==
    /\ call.pc = "loop"
    /\ call.i > Len(call.names)
    /\ call' = [call EXCEPT
                  !.pc = "returned",
                  !.summary = Some(AutomatedBenchmarkSummary(call.runs, history,
                                                             call.track_history))]
    /\ UNCHANGED <<adapters, history_limit, history, appended, ncalls>>
    /\ UNCHANGED indexVars

Next ==
    \/ \E args \in RunAllArgs : RunAllBegin(args[1], args[2], args[3])
    \/ RunAllSkip
    \/ RunAllAdapter
    \/ RunAllReturn

Spec == Init /\ [][Next]_vars

\* the same runner, handed its cases as lists or as single-pass iterators
IterRunAllArgs ==
    {<<<<Case1, Case2>>, None, TRUE>>,
     <<<<Case2>>, Some(<<"nope", "tag_bias", "baseline_bow">>), FALSE>>}

NextIter ==
    \/ \E args \in IterRunAllArgs : RunAllBegin(args[1], args[2], args[3])
    \/ \E args \in IterRunAllArgs : RunAllBeginIter(args[1], args[2], args[3])
    \/ RunAllSkip
    \/ RunAllAdapter
    \/ RunAllReturn

SpecIter == Init /\ [][NextIter]_vars

(***************************************************************************)
(* State machine 2: one RetrievalEngine(tag_boost, source_boost) with its  *)
(* InMemoryVectorIndex, driven by add, ingest_bundle, query, reset and by  *)
(* a RetrievalBenchmarkRunner(engine=engine) built on it.  Where the       *)
(* program also holds an automated runner it is AutomatedBenchmarkRunner() *)
(* with its defaults: the default adapters and history_limit 20.           *)
(***************************************************************************)
\* history_limit of AutomatedBenchmarkRunner()
DefaultHistoryLimit == 20

InitIndex ==
    /\ docs = <<>>
    /\ \E b \in BoostPairs : tag_boost = b[1] /\ source_boost = b[2]
    /\ addLog = <<>>
    /\ lastOp = IdleOp
    /\ adapters = default_adapter_factories
    /\ history_limit = DefaultHistoryLimit
    /\ history = <<>>
    /\ appended = <<>>
    /\ call = IdleCall
    /\ ncalls = 0

\* engine.index.add(**a)
Add(a) ==
    /\ Len(docs) < MaxDocs
    /\ docs' = IndexAdd(docs, a)
    /\ addLog' = Append(addLog, a)
    /\ lastOp' = [op |-> "add", arg |-> Some(a), result |-> None, inner |-> None,
                  before |-> Len(docs)]
    /\ UNCHANGED <<tag_boost, source_boost>>
    /\ UNCHANGED autoVars

\* engine.ingest_bundle(bundle)
IngestBundle(bundle) ==
    /\ Len(docs) + Len(bundle) <= MaxDocs
    /\ docs' = IngestDocs(docs, bundle)
    /\ addLog' = addLog \o [i \in 1..Len(bundle) |-> SliceAddArgs(bundle[i])]
    /\ lastOp' = [op |-> "ingest", arg |-> Some(bundle), result |-> Some(Len(bundle)),
                  inner |-> None,
                  before |-> Len(docs)]
    /\ UNCHANGED <<tag_boost, source_boost>>
    /\ UNCHANGED autoVars

\* engine.query(text, top_k).hits; inner is what the index.query call it makes
\* (retrieval.py:124) returned
Query(text, top_k) ==
    /\ lastOp' = [op |-> "query", arg |-> Some(<<text, top_k>>),
                  result |-> Some(EngineQuery(docs, tag_boost, source_boost, text, top_k)),
                  inner |-> Some(IndexQuery(docs, text, top_k)),
                  before |-> Len(docs)]
    /\ UNCHANGED <<docs, addLog, tag_boost, source_boost>>
    /\ UNCHANGED autoVars

\* engine.index.reset()
ResetIndex ==
    /\ docs' = IndexReset(docs)
    /\ addLog' = <<>>
    /\ lastOp' = [op |-> "index.reset", arg |-> None, result |-> None, inner |-> None,
                  before |-> Len(docs)]
    /\ UNCHANGED <<tag_boost, source_boost>>
    /\ UNCHANGED autoVars

\* engine.reset()
ResetEngine ==
    /\ docs' = EngineReset(docs)
    /\ addLog' = <<>>
    /\ lastOp' = [op |-> "engine.reset", arg |-> None, result |-> None, inner |-> None,
                  before |-> Len(docs)]
    /\ UNCHANGED <<tag_boost, source_boost>>
    /\ UNCHANGED autoVars

\* RetrievalBenchmarkRunner(engine=engine).run(cases)
RunnerRun(cases) ==
    /\ \E out \in {run([docs |-> docs, tag_boost |-> tag_boost,
                        source_boost |-> source_boost], cases)} :
           /\ docs' = out.docs
           /\ lastOp' = [op |-> "run", arg |-> Some(cases), result |-> Some(out.suite),
                         inner |-> None,
                  before |-> Len(docs)]
    /\ addLog' = IF cases = <<>> THEN addLog
                 ELSE LET b == cases[Len(cases)].bundle
                      IN  [i \in 1..Len(b) |-> SliceAddArgs(b[i])]
    /\ UNCHANGED <<tag_boost, source_boost>>
    /\ UNCHANGED autoVars

NextIndex ==
    \/ \E a \in AddPool : Add(a)
    \/ \E bundle \in BundlePool \cup {<<Slice4, Slice1>>} : IngestBundle(bundle)
    \/ \E text \in QueryPool, top_k \in TopKs : Query(text, top_k)
    \/ ResetIndex
    \/ ResetEngine
    \/ \E cases \in CaseLists : RunnerRun(cases)

SpecIndex == InitIndex /\ [][NextIndex]_vars

(***************************************************************************)
(* RetrievalBenchmarkRunner(engine).run([case]) for one case at a time.    *)
(***************************************************************************)
RunOneCase(case) ==
    /\ \E out \in {run([docs |-> docs, tag_boost |-> tag_boost,
                        source_boost |-> source_boost], <<case>>)} :
           /\ docs' = out.docs
           /\ lastOp' = [op |-> "case", arg |-> Some(case),
                         result |-> Some(out.suite.results[1]),
                         inner |-> Some(out.suite),
                         before |-> 0]
    /\ addLog' = [i \in 1..Len(case.bundle) |-> SliceAddArgs(case.bundle[i])]
    /\ UNCHANGED <<tag_boost, source_boost>>
    /\ UNCHANGED autoVars

NextCase ==
    \E case \in CasePool \cup {ResearchDiagram, SpeechNotes, SparseCase} :
        RunOneCase(case)

SpecCase == InitIndex /\ [][NextCase]_vars

(***************************************************************************)
(* An index queried with texts that embed to the vector of a stored        *)
(* document, to the vector of none, and to the empty vector.               *)
(***************************************************************************)
TxtBAA == <<"B", " ", "a", " ", "a">>
TxtBlank == <<" ">>

SelfAddPool ==
    {[doc_id |-> "d1", text |-> TxtABA, summary |-> TxtABA, tags |-> None,
      modality |-> "text", sources |-> None],
     [doc_id |-> "d2", text |-> TxtBlank, summary |-> TxtEmpty, tags |-> None,
      modality |-> "text", sources |-> None],
     [doc_id |-> "d3", text |-> TxtA, summary |-> TxtA, tags |-> None,
      modality |-> "text", sources |-> None]}

SelfTexts == {TxtBAA, TxtEmpty, TxtC}

SelfTopKs == {1, MaxDocs}

NextSelf ==
    \/ \E a \in SelfAddPool : Add(a)
    \/ \E text \in SelfTexts, top_k \in SelfTopKs : Query(text, top_k)

SpecSelf == InitIndex /\ [][NextSelf]_vars

(***************************************************************************)
(* embed_text on every text of at most MaxTextLen characters.              *)
(***************************************************************************)
EmbedChars == {"a", "B", " ", "\r", ".", "\""}

RECURSIVE TextsUpTo(_)
TextsUpTo(n) ==
    IF n = 0 THEN {<<>>}
    ELSE LET shorter == TextsUpTo(n - 1)
         IN  shorter \cup {Append(t, c) : t \in shorter, c \in EmbedChars}

\* embed_text(text)
Embed(text) ==
    /\ lastOp' = [op |-> "embed", arg |-> Some(text), result |-> Some(embed_text(text)),
                  inner |-> None, before |-> 0]
    /\ UNCHANGED <<docs, addLog, tag_boost, source_boost>>
    /\ UNCHANGED autoVars

NextEmbed == \E text \in TextsUpTo(MaxTextLen) : Embed(text)

SpecEmbed == InitIndex /\ [][NextEmbed]_vars

(***************************************************************************)
(* One program of the library's objects: a RetrievalEngine, ingested into  *)
(* and queried directly, a RetrievalBenchmarkRunner(engine=engine) on it   *)
(* and an AutomatedBenchmarkRunner(), handed empty inputs among others.    *)
(***************************************************************************)
NextEmpty ==
    \/ \E bundle \in BundlePool : IngestBundle(bundle)
    \/ \E text \in QueryPool, top_k \in TopKs : Query(text, top_k)
    \/ ResetEngine
    \/ \E cases \in EmptyCaseLists : RunnerRun(cases)
    \/ \E args \in EmptyRunAllArgs : RunAllBegin(args[1], args[2], args[3])
    \/ RunAllSkip
    \/ RunAllAdapter
    \/ RunAllReturn

SpecEmpty == InitIndex /\ [][NextEmpty]_vars

(***************************************************************************)
(* Properties.                                                             *)
(***************************************************************************)
\* the last n elements of a sequence
LastN(q, n) == SubSeq(q, Len(q) - n + 1, Len(q))

Registered(name) == \E i \in 1..Len(adapters) : adapters[i].name = name

\* C1: in every state of an AutomatedBenchmarkRunner, also between the appends of
\* one run_all call, the history holds at most history_limit entries.
C1_HistoryBounded == Len(history) <= history_limit

\* C1 witness: in the middle of a run_all loop the history is full and more
\* results than its capacity have been appended.
C1_Witness ==
    /\ call.pc = "loop"
    /\ call.i <= Len(call.names)
    /\ history_limit > 0
    /\ Len(history) = history_limit
    /\ Len(appended) > history_limit

\* C2: the history is the last min(history_limit, n) of the n results appended so
\* far, in append order; so with capacity 2, after three tracked run_all calls it
\* holds exactly two entries, the two appended last.
C2_HistoryIsLastAppended ==
    history = LastN(appended, Min(history_limit, Len(appended)))

\* C2 witness: capacity 2, three run_all calls returned, each of which appended,
\* and the history holds the two results appended last.
C2_Witness ==
    /\ history_limit = 2
    /\ ncalls = 3
    /\ call.pc = "returned"
    /\ {appended[j].serial[1] : j \in 1..Len(appended)} = {1, 2, 3}
    /\ Len(history) = 2
    /\ history[1] = appended[Len(appended) - 1]
    /\ history[2] = appended[Len(appended)]

\* what the history holds after appending the results rs to h
RECURSIVE AfterAppends(_, _, _)
AfterAppends(h, rs, limit) ==
    IF rs = <<>> THEN h
    ELSE AfterAppends(LastN(Append(h, rs[1]), Min(limit, Len(h) + 1)), Tail(rs), limit)

\* C3: run_all with track_history = false leaves the history as it was at the call
\* and returns a summary whose history is None; with track_history = true the
\* summary's history is a list, equal to the history after this call's appends.
C3_HistoryRequestedOrNot ==
    /\ (call.pc = "loop" /\ ~call.track_history) => history = call.history0
    /\ call.pc = "returned" =>
          IF call.track_history
          THEN /\ call.summary.val.history.some
               /\ call.summary.val.history.val = history
               /\ history = AfterAppends(call.history0, call.runs, history_limit)
          ELSE /\ call.summary.val.history = None
               /\ call.summary.val.history # Some(<<>>)
               /\ history = call.history0

\* C3 witness: an untracked call that ran adapters has returned, on a runner whose
\* history holds entries from earlier calls.
C3_Witness ==
    /\ call.pc = "returned"
    /\ ~call.track_history
    /\ call.runs # <<>>
    /\ history # <<>>
    /\ call.summary.val.history = None

\* C4: run(cases) reports for cases[i], as results[i], what the case yields when
\* run alone on a fresh engine with the same boosts, whatever cases precede it and
\* whatever the index held before the call.
C4_CasesIsolated ==
    lastOp.op = "run" =>
        LET cases == lastOp.arg.val
            results == lastOp.result.val.results
        IN  /\ Len(results) = Len(cases)
            /\ \A i \in 1..Len(cases) :
                  results[i] =
                     run(RetrievalEngine(tag_boost, source_boost), <<cases[i]>>).suite.results[1]

\* C4 witness: run over two cases has returned on an engine whose index held
\* documents when it was called.
C4_Witness ==
    /\ lastOp.op = "run"
    /\ Len(lastOp.arg.val) = 2
    /\ lastOp.before > 0
    /\ lastOp.result.val.results[2].hits # <<>>

\* C5 (as claimed): the suite of every adapter result of run_all is the suite
\* RetrievalBenchmarkRunner(engine=factory()).run(cases) returns for that
\* adapter's factory over the cases the caller supplied, whether they were
\* supplied as a list or as a single-pass iterable.
C5_SuiteAsManualRun ==
    \A r \in 1..Len(call.runs) :
        call.runs[r].suite = run(Factory(adapters, call.runs[r].adapter), call.cases).suite

\* the names run_all iterates over, from its argument
GivenNames == IF Falsy(call.adapter_names) THEN AdapterKeys(adapters)
              ELSE call.adapter_names.val

RECURSIVE RegisteredOnly(_)
RegisteredOnly(names) ==
    IF names = <<>> THEN <<>>
    ELSE (IF Registered(names[1]) THEN <<names[1]>> ELSE <<>>) \o RegisteredOnly(Tail(names))

\* the results appended to the history by call number n
RECURSIVE AppendedBy(_, _)
AppendedBy(log, n) ==
    IF log = <<>> THEN <<>>
    ELSE (IF log[1].serial[1] = n THEN <<log[1]>> ELSE <<>>) \o AppendedBy(Tail(log), n)

\* C6: run_all produces one result per registered name of the resolved list, in the
\* order given (a repeated name runs again), each with the suite of a fresh engine
\* of that name's factory; an unregistered name is skipped: it adds no run and no
\* history entry, and the call still returns.
C6_OneRunPerRegisteredName ==
    call.pc \in {"loop", "returned"} =>
        LET done == SubSeq(GivenNames, 1, Min(call.i - 1, Len(GivenNames)))
            expected == RegisteredOnly(done)
        IN  /\ call.names = GivenNames
            /\ Len(call.runs) = Len(expected)
            /\ \A r \in 1..Len(call.runs) :
                  /\ call.runs[r].adapter = expected[r]
                  /\ call.runs[r].suite =
                        run(Factory(adapters, expected[r]), call.cases).suite
            /\ AppendedBy(appended, ncalls) = IF call.track_history THEN call.runs ELSE <<>>
            /\ call.pc = "returned" =>
                  /\ call.i = Len(GivenNames) + 1
                  /\ call.summary.val.runs = call.runs

\* C6 witness: a call given a list with an unregistered name between two
\* registered ones has returned with exactly the two registered runs, in order.
C6_Witness ==
    /\ call.pc = "returned"
    /\ call.adapter_names = Some(<<"tag_bias", "nope", "baseline_bow">>)
    /\ Len(call.runs) = 2
    /\ call.runs[1].adapter = "tag_bias"
    /\ call.runs[2].adapter = "baseline_bow"

\* C7 (as claimed): whenever adapter_names is supplied, the empty list included,
\* only adapters named in the list are run.
C7_OnlyNamedAdaptersRun ==
    (call.pc = "returned" /\ call.adapter_names # None) =>
        \A r \in 1..Len(call.runs) :
            call.runs[r].adapter \in Range(call.adapter_names.val)

\* the documents the index holds after the adds of log
DocsOf(log) == [i \in 1..Len(log) |-> IndexedDocument(log[i])]

\* C8: the index holds, in order, exactly the documents passed to add since the
\* last reset: add appends one entry and touches no other, also for an id already
\* present; reset empties the index; query changes nothing.
C8_IndexIsAddLog == docs = DocsOf(addLog)

\* C8 witness: add has just been called with an id the index already held, and
\* the index holds both entries.
C8_Witness ==
    /\ lastOp.op = "add"
    /\ Len(docs) = lastOp.before + 1
    /\ \E i \in 1..(Len(docs) - 1) :
          /\ docs[i].id = docs[Len(docs)].id
          /\ docs[i] # docs[Len(docs)]

\* C9: after reset of the index or of the engine the index is empty, a further
\* reset leaves that state unchanged, and a query with any text and top_k returns
\* no hits, from the index and from the engine.
C9_ResetIdempotent ==
    lastOp.op \in {"index.reset", "engine.reset"} =>
        /\ docs = <<>>
        /\ IndexReset(docs) = docs
        /\ EngineReset(docs) = docs
        /\ \A text \in QueryPool, top_k \in TopKs :
              /\ IndexQuery(docs, text, top_k) = <<>>
              /\ EngineQuery(docs, tag_boost, source_boost, text, top_k) = <<>>

\* C9 witness: the engine's reset has just run on an index that held documents.
C9_Witness ==
    /\ lastOp.op = "engine.reset"
    /\ lastOp.before > 1
    /\ docs = <<>>

\* C10: for a non-negative top_k, index.query and engine.query return at most
\* min(top_k, number of documents) hits.
C10_TopKBound ==
    (lastOp.op = "query" /\ lastOp.arg.val[2] >= 0) =>
        /\ Len(lastOp.inner.val) <= Min(lastOp.arg.val[2], Len(docs))
        /\ Len(lastOp.result.val) <= Min(lastOp.arg.val[2], Len(docs))

\* C10 witness: a query with top_k = 1 on an index of three documents returned
\* one hit.
C10_Witness ==
    /\ lastOp.op = "query"
    /\ lastOp.arg.val[2] = 1
    /\ Len(docs) = 3
    /\ Len(lastOp.inner.val) = 1
    /\ Len(lastOp.result.val) = 1

\* C11 (as claimed): for every top_k <= 0, zero and negative, and any index
\* contents, index.query and engine.query return no hits.
C11_NonPositiveTopKEmpty ==
    (lastOp.op = "query" /\ lastOp.arg.val[2] <= 0) =>
        /\ lastOp.inner.val = <<>>
        /\ lastOp.result.val = <<>>

\* a hit without its score: the document it stands for
HitKey(hit) == [hit EXCEPT !.score = 0]

TagOverlap(hit, text) == Range(tokenize(text)) \cap Range(hit.tags)

\* C16: with the index, the query, top_k and source_boost fixed, a larger
\* tag_boost never lowers (and a smaller one never raises) the adjusted score
\* of a returned hit whose tags meet the query's tokens, and leaves the score
\* of a returned hit without tag overlap unchanged.
C16_TagBoostMonotone ==
    lastOp.op = "query" =>
        \A tb2 \in TagBoosts :
            LET text == lastOp.arg.val[1]
                mine == lastOp.result.val
                other == EngineQuery(docs, tb2, source_boost, text, lastOp.arg.val[2])
            IN  \A i \in 1..Len(mine), j \in 1..Len(other) :
                    HitKey(mine[i]) = HitKey(other[j]) =>
                        IF TagOverlap(mine[i], text) # {}
                        THEN /\ tb2 >= tag_boost => other[j].score >= mine[i].score
                             /\ tb2 <= tag_boost => other[j].score <= mine[i].score
                        ELSE other[j].score = mine[i].score

\* a query returned a hit with tag overlap whose score grows with tag_boost,
\* next to a hit without tag overlap
C16_Witness ==
    /\ lastOp.op = "query"
    /\ LET text == lastOp.arg.val[1]
           mine == lastOp.result.val
           other == EngineQuery(docs, 5000, source_boost, text, lastOp.arg.val[2])
       IN  /\ \E i \in 1..Len(mine), j \in 1..Len(other) :
                  /\ HitKey(mine[i]) = HitKey(other[j])
                  /\ TagOverlap(mine[i], text) # {}
                  /\ other[j].score > mine[i].score
           /\ \E i \in 1..Len(mine) : TagOverlap(mine[i], text) = {}

\* the adjusted score the engine owes an index hit
OwedScore(hit, text) ==
    hit.score + tag_boost * Cardinality(TagOverlap(hit, text))
              + source_boost * (IF Len(hit.sources) > 0 THEN 1 ELSE 0)

\* C17: engine.query gives every hit the index returned the score
\* raw + tag_boost * |query_tokens /\ set(tags)| + source_boost * [sources
\* non-empty] (tags, tokens and sources count by presence), and returns these
\* hits sorted descending by that score, cut by [:top_k].
C17_AdjustedScoreAndOrder ==
    lastOp.op = "query" =>
        LET text == lastOp.arg.val[1]
            raw == lastOp.inner.val
            owed == [i \in 1..Len(raw) |-> [raw[i] EXCEPT !.score = OwedScore(raw[i], text)]]
        IN  lastOp.result.val = SliceTo(SortedDesc(owed), lastOp.arg.val[2])

\* a boosted engine returned a hit with a repeated matching tag and a hit with
\* several sources, in another order than the index gave them
C17_Witness ==
    /\ lastOp.op = "query"
    /\ tag_boost > 0
    /\ source_boost > 0
    /\ LET text == lastOp.arg.val[1]
           res == lastOp.result.val
       IN  /\ \E i \in 1..Len(res) :
                  /\ TagOverlap(res[i], text) # {}
                  /\ Len(res[i].tags) > Cardinality(Range(res[i].tags))
           /\ \E i \in 1..Len(res) : Len(res[i].sources) > 1
           /\ Len(res) = Len(lastOp.inner.val)
           /\ \E i \in 1..Len(res) : HitKey(res[i]) # HitKey(lastOp.inner.val[i])

\* the result of the case the runner last ran, and the case itself
CaseRan == lastOp.op = "case"

TheCase == lastOp.arg.val

TheResult == lastOp.result.val

\* the ids of hits that are relevant, in hit order
RECURSIVE IdsIn(_, _)
IdsIn(hits, relevant_ids) ==
    IF hits = <<>> THEN <<>>
    ELSE LET rest == IdsIn(Tail(hits), relevant_ids)
         IN  IF \E j \in 1..Len(relevant_ids) : relevant_ids[j] = hits[1].id
             THEN <<hits[1].id>> \o rest
             ELSE rest

\* v, in 1e-4 units, is the quotient a / b rounded to 4 decimals
IsRounded(v, a, b) ==
    /\ 2 * (v * b - a * Scale) <= b
    /\ 2 * (a * Scale - v * b) <= b

\* C12 (as claimed): relevant_found is the ids of the returned hits that are in
\* relevant_ids, in hit order, and precision_at_k and recall_at_k are exactly
\* |relevant_found| / max(|hits|, 1) and |relevant_found| / max(|relevant_ids|, 1).
C12_MetricsExactQuotients ==
    CaseRan =>
        LET r == TheResult
            found == Len(r.relevant_found)
        IN  /\ r.relevant_found = IdsIn(r.hits, TheCase.relevant_ids)
            /\ r.precision_at_k * Max(Len(r.hits), 1) = found * Scale
            /\ r.recall_at_k * Max(Len(TheCase.relevant_ids), 1) = found * Scale

\* C12 (amended): relevant_found is as claimed, and precision_at_k and
\* recall_at_k are the two quotients rounded to 4 decimals, the denominators
\* being the number of hits returned and the number of relevant_ids.
C12_MetricsRoundedQuotients ==
    CaseRan =>
        LET r == TheResult
            found == Len(r.relevant_found)
        IN  /\ r.relevant_found = IdsIn(r.hits, TheCase.relevant_ids)
            /\ r.hits = EngineQuery(docs, tag_boost, source_boost,
                                    TheCase.query, TheCase.top_k)
            /\ IsRounded(r.precision_at_k, found, Max(Len(r.hits), 1))
            /\ IsRounded(r.recall_at_k, found, Max(Len(TheCase.relevant_ids), 1))

\* a case returned three hits, one of them relevant: precision is 0.3333, not 1/3
C12_Witness ==
    /\ CaseRan
    /\ Len(TheResult.hits) = 3
    /\ Len(TheResult.relevant_found) = 1
    /\ TheResult.precision_at_k = 3333
    /\ TheResult.recall_at_k = Scale

\* C13 (as claimed): for every case, whatever its corpus, query, relevant_ids
\* and top_k, the reported recall_at_k lies in [0, 1].
C13_RecallInUnitInterval ==
    CaseRan => (0 <= TheResult.recall_at_k /\ TheResult.recall_at_k <= Scale)

\* C14: for every case, whatever its corpus, query, relevant_ids and top_k, the
\* reported precision_at_k lies in [0, 1].
C14_PrecisionInUnitInterval ==
    CaseRan => (0 <= TheResult.precision_at_k /\ TheResult.precision_at_k <= Scale)

\* a case whose corpus repeats an id returned both copies, every hit relevant
\* (precision 1) while relevant_ids holds a single id
C14_Witness ==
    /\ CaseRan
    /\ Len(TheResult.hits) > 1
    /\ Len(TheResult.relevant_found) > Len(TheCase.relevant_ids)
    /\ TheResult.precision_at_k > 0

\* the recall of the case last run, had it been run with top_k = k
RecallAt(k) ==
    run([docs |-> <<>>, tag_boost |-> tag_boost, source_boost |-> source_boost],
        <<[TheCase EXCEPT !.top_k = k]>>).suite.results[1].recall_at_k

\* C15 (as claimed): with corpus, query, relevant_ids and engine fixed, recall
\* does not decrease when top_k grows.
C15_RecallMonotoneInTopK ==
    CaseRan =>
        \A k2 \in TopKs :
            /\ TheCase.top_k <= k2 => TheResult.recall_at_k <= RecallAt(k2)
            /\ k2 <= TheCase.top_k => RecallAt(k2) <= TheResult.recall_at_k

\* C18: the core operations accept empty inputs: a query on an empty index
\* returns no hit; ingesting an empty bundle returns 0 and adds nothing; run([])
\* returns a suite without results and macros 0; a case with no relevant ids or
\* no hits has precision and recall 0; run_all in which no name is registered
\* returns a summary without runs and macros 0.
C18_EmptyInputs ==
    /\ (lastOp.op = "query" /\ docs = <<>>) =>
            (lastOp.inner.val = <<>> /\ lastOp.result.val = <<>>)
    /\ (lastOp.op = "ingest" /\ lastOp.arg.val = <<>>) =>
            (lastOp.result.val = 0 /\ Len(docs) = lastOp.before)
    /\ lastOp.op = "run" =>
            LET cases == lastOp.arg.val
                suite == lastOp.result.val
            IN  /\ Len(suite.results) = Len(cases)
                /\ cases = <<>> =>
                        (suite.macro_precision = 0 /\ suite.macro_recall = 0)
                /\ \A i \in 1..Len(cases) :
                        (cases[i].relevant_ids = <<>> \/ suite.results[i].hits = <<>>) =>
                            /\ suite.results[i].precision_at_k = 0
                            /\ suite.results[i].recall_at_k = 0
    /\ (/\ call.pc = "returned"
        /\ \A i \in 1..Len(call.names) :
                \A j \in 1..Len(adapters) : adapters[j].name # call.names[i]) =>
            /\ call.summary.val.runs = <<>>
            /\ call.summary.val.macro_precision = 0
            /\ call.summary.val.macro_recall = 0

\* run has just scored a case without relevant ids that had a hit and a case
\* without hits that had a relevant id, and a run_all given only unregistered
\* names has returned
C18_Witness ==
    /\ lastOp.op = "run"
    /\ \E i \in 1..Len(lastOp.arg.val) :
            /\ lastOp.arg.val[i].relevant_ids = <<>>
            /\ lastOp.result.val.results[i].hits # <<>>
    /\ \E i \in 1..Len(lastOp.arg.val) :
            /\ lastOp.arg.val[i].relevant_ids # <<>>
            /\ lastOp.result.val.results[i].hits = <<>>
    /\ call.pc = "returned"
    /\ call.names # <<>>
    /\ call.summary.val.runs = <<>>

\* v (1e-4 units) is the arithmetic mean of values, rounded to 4 decimals; the
\* mean of no value is 0
IsMeanOf(v, values) ==
    LET n == Max(Len(values), 1)
        s == SumSeq(values)
    IN  /\ 2 * (v * n - s) <= n
        /\ 2 * (s - v * n) <= n

\* C19: the macros of every suite are the means of its per-case precision and
\* recall, and the macros of a run_all summary are the means of the suite macros
\* of the adapters that were run, each rounded to 4 decimals.
C19_MacrosAreRoundedMeans ==
    /\ \A i \in 1..Len(call.runs) :
            LET suite == call.runs[i].suite
                n == Len(suite.results)
            IN  /\ n = Len(call.cases)
                /\ IsMeanOf(suite.macro_precision,
                            [j \in 1..n |-> suite.results[j].precision_at_k])
                /\ IsMeanOf(suite.macro_recall,
                            [j \in 1..n |-> suite.results[j].recall_at_k])
    /\ call.pc = "returned" =>
            LET summary == call.summary.val
                ran == Len(summary.runs)
            IN  /\ ran = Cardinality({i \in 1..Len(call.names) :
                                        call.names[i] \in Range(AdapterKeys(adapters))})
                /\ IsMeanOf(summary.macro_precision,
                            [i \in 1..ran |-> summary.runs[i].suite.macro_precision])
                /\ IsMeanOf(summary.macro_recall,
                            [i \in 1..ran |-> summary.runs[i].suite.macro_recall])

\* a returned run_all ran adapters whose suites differ and reports a macro that
\* is a mean rounded upwards
C19_Witness ==
    /\ call.pc = "returned"
    /\ LET summary == call.summary.val
           ran == Len(summary.runs)
       IN  /\ ran > 1
           /\ \E i, j \in 1..ran :
                  summary.runs[i].suite.macro_precision # summary.runs[j].suite.macro_precision
           /\ \/ summary.macro_precision * ran >
                    SumSeq([i \in 1..ran |-> summary.runs[i].suite.macro_precision])
              \/ summary.macro_recall * ran >
                    SumSeq([i \in 1..ran |-> summary.runs[i].suite.macro_recall])

\* the vector embed_text last returned: the weight of k is the float
\* cnt[k] / sqrt(n2)
Embedded == lastOp.op = "embed"

\* x < y for two floats
FLess(x, y) ==
    LET e == Min(x.e, y.e)
    IN  BigLess(BigShl(x.m, x.e - e), BigShl(y.m, y.e - e))

WeightsNonNegative(v) ==
    \A k \in DOMAIN v.cnt : ~FLess(Weight(v, k), FInt(0))

\* sum(w * w for w in v.values()): the float sum of the squared weights
NormSquared(v) ==
    LET squares == [i \in 1..Len(v.keys) |->
                       FMul(Weight(v, v.keys[i]), Weight(v, v.keys[i]))]
    IN  FSum(SubSeq(squares, 1, Len(v.keys)), Len(v.keys))

\* the sum of the squared weights is the float 1.0
UnitNormExactly(v) ==
    ~FLess(NormSquared(v), FInt(1)) /\ ~FLess(FInt(1), NormSquared(v))

\* the sum of the squared weights is within 2^-40 of 1
UnitNorm(v) ==
    LET one == BigShl(<<1>>, 40)
    IN  /\ ~FLess(NormSquared(v), [m |-> BigSub(one, <<1>>), e |-> 0 - 40])
        /\ ~FLess([m |-> BigAdd(one, <<1>>), e |-> 0 - 40], NormSquared(v))

\* C20 (as claimed): for every non-empty text embed_text returns a vector of
\* non-negative weights whose squares sum to 1; for the empty string it returns
\* the empty mapping.
C20_NonEmptyTextUnitNorm ==
    Embedded =>
        LET text == lastOp.arg.val
            v == lastOp.result.val
        IN  /\ text # <<>> => (WeightsNonNegative(v) /\ UnitNormExactly(v))
            /\ text = <<>> => DOMAIN v.cnt = {}

HasNonWhitespace(text) == \E i \in 1..Len(text) : text[i] \notin Whitespace

\* C20 (amended): for every text with a character that is not white space
\* embed_text returns a vector of non-negative weights whose squares, summed as
\* floats, come to 1 within 2^-40; for the empty string and for a text of white
\* space only it returns the empty mapping.
C20_NonBlankTextUnitNorm ==
    Embedded =>
        LET text == lastOp.arg.val
            v == lastOp.result.val
        IN  /\ WeightsNonNegative(v)
            /\ HasNonWhitespace(text) => (DOMAIN v.cnt # {} /\ UnitNorm(v))
            /\ ~HasNonWhitespace(text) => DOMAIN v.cnt = {}

\* a text of a word and a lone full stop was embedded: two tokens, one of them
\* the empty token, each of weight 1/sqrt(2) as a float, the squares summing
\* to less than 1
C20_Witness ==
    /\ Embedded
    /\ HasNonWhitespace(lastOp.arg.val)
    /\ DOMAIN lastOp.result.val.cnt = {<<>>, <<"a">>}
    /\ lastOp.result.val.n2 = 2
    /\ FLess(NormSquared(lastOp.result.val), FInt(1))

\* the index hits of the last query that stand for document d
HitsOf(d) == {i \in 1..Len(lastOp.inner.val) : lastOp.inner.val[i].id = d.id}

\* stored documents whose vector is the vector of the last query's text
SameVector ==
    {i \in 1..Len(docs) : docs[i].vector.cnt = embed_text(lastOp.arg.val[1]).cnt}

\* C21 (as claimed): a stored document D whose token vector equals the query's
\* gets the raw score 1.0 and no returned hit scores higher; a document sharing
\* no token with the query gets 0; the index's first hit scores as D does.
C21_SelfQueryScoresOne ==
    lastOp.op = "query" =>
        LET qv == embed_text(lastOp.arg.val[1])
            hits == lastOp.inner.val
        IN  /\ \A i \in SameVector :
                /\ \A h \in HitsOf(docs[i]) : hits[h].score = Scale
                /\ \A j \in 1..Len(hits) : hits[j].score <= Scale
                /\ hits[1].score = Scale
            /\ \A i \in 1..Len(docs) :
                DOMAIN docs[i].vector.cnt \cap DOMAIN qv.cnt = {} =>
                    \A h \in HitsOf(docs[i]) : hits[h].score = 0

\* C21 (amended): as claimed when the common vector is not empty; when it is
\* empty, D and every other document get the raw score 0.
C21_SelfQueryScoresTop ==
    lastOp.op = "query" =>
        LET qv == embed_text(lastOp.arg.val[1])
            hits == lastOp.inner.val
            top == IF DOMAIN qv.cnt = {} THEN 0 ELSE Scale
        IN  /\ \A i \in SameVector :
                /\ \A h \in HitsOf(docs[i]) : hits[h].score = top
                /\ \A j \in 1..Len(hits) : hits[j].score <= top
                /\ hits[1].score = top
            /\ \A i \in 1..Len(docs) :
                DOMAIN docs[i].vector.cnt \cap DOMAIN qv.cnt = {} =>
                    \A h \in HitsOf(docs[i]) : hits[h].score = 0

\* a query with the vector of a stored document that was not added first, next
\* to a document sharing a token and a document sharing none: the document is
\* the first hit with score 1.0
C21_Witness ==
    /\ lastOp.op = "query"
    /\ Len(docs) = MaxDocs
    /\ Len(lastOp.inner.val) = MaxDocs
    /\ 1 \notin SameVector
    /\ \E i \in SameVector : lastOp.inner.val[1].id = docs[i].id
    /\ lastOp.inner.val[1].score = Scale
    /\ \E j \in 1..MaxDocs : lastOp.inner.val[j].score = 0
    /\ \E j \in 1..MaxDocs : lastOp.inner.val[j].score \in 1..(Scale - 1)

\* the built-in research-diagram case was run on a baseline engine
DiagramRan == CaseRan /\ TheCase = ResearchDiagram /\ tag_boost = 0 /\ source_boost = 0

BothFound ==
    {"text-transformer", "image-attention"} \subseteq Range(TheResult.relevant_found)

\* C22 (as claimed): the research-diagram case on a baseline engine finds both
\* relevant ids and reports precision_at_k = recall_at_k = 1.0.
C22_DiagramPerfect ==
    DiagramRan =>
        /\ BothFound
        /\ TheResult.precision_at_k = Scale
        /\ TheResult.recall_at_k = Scale

\* C22 (amended): the case finds both relevant ids among three returned hits,
\* the third being text-cv with score 0: recall_at_k is 1.0, precision_at_k 0.6667.
C22_DiagramTwoOfThree ==
    DiagramRan =>
        /\ BothFound
        /\ Len(TheResult.relevant_found) = 2
        /\ [i \in 1..Len(TheResult.hits) |-> TheResult.hits[i].id]
                = <<"image-attention", "text-transformer", "text-cv">>
        /\ TheResult.hits[3].score = 0
        /\ TheResult.precision_at_k = 6667
        /\ TheResult.recall_at_k = Scale

\* the case was run on a baseline engine; its hits score 0.1768, 0.1667 and 0
C22_Witness ==
    /\ DiagramRan
    /\ [i \in 1..Len(TheResult.hits) |-> TheResult.hits[i].score] = <<1768, 1667, 0>>

\* the registered adapter a run was made with
AdapterOf(r) == CHOOSE a \in Range(adapters) : a.name = r.adapter

\* every relevant document of the case carries a tag among the query's tokens
RelevantTagged(case) ==
    /\ \E i \in 1..Len(case.bundle) : case.bundle[i].id \in Range(case.relevant_ids)
    /\ \A i \in 1..Len(case.bundle) :
            case.bundle[i].id \in Range(case.relevant_ids) =>
                Range(tokenize(case.query)) \cap Range(case.bundle[i].tags) # {}

\* C23 (as claimed): when run_all ran a baseline adapter (tag_boost 0) and an
\* adapter differing from it only in tag_boost = 0.2 over cases whose relevant
\* documents carry tags among the query's tokens, the boosted adapter's suite
\* macro_precision is at least the baseline's.
C23_BoostedAtLeastBaseline ==
    (/\ call.pc = "returned"
     /\ call.cases # <<>>
     /\ \A c \in 1..Len(call.cases) : RelevantTagged(call.cases[c])) =>
        \A i, j \in 1..Len(call.runs) :
            (/\ AdapterOf(call.runs[i]).tag_boost = 0
             /\ AdapterOf(call.runs[j]).tag_boost = 2000
             /\ AdapterOf(call.runs[i]).source_boost = AdapterOf(call.runs[j]).source_boost) =>
                call.runs[j].suite.macro_precision >= call.runs[i].suite.macro_precision

\* summary, then every highlight, each preceded by one space
RECURSIVE SpacedAfter(_, _)
SpacedAfter(head, rest) ==
    IF rest = <<>> THEN head
    ELSE SpacedAfter(head \o <<" ">> \o rest[1], Tail(rest))

\* the document an item of a bundle is stored as
StoredAs(item) ==
    [id |-> item.id,
     vector |-> embed_text(SpacedAfter(item.summary, item.highlights)),
     summary |-> item.summary,
     tags |-> item.tags,
     modality |-> item.modality,
     sources |-> item.source_refs]

\* the index.add call made for an item of a bundle
AddedAs(item) ==
    [doc_id |-> item.id,
     text |-> SpacedAfter(item.summary, item.highlights),
     summary |-> item.summary,
     tags |-> Some(item.tags),
     modality |-> item.modality,
     sources |-> Some(item.source_refs)]

\* C24: ingest_bundle makes one index.add call per item of the bundle, in
\* bundle order, with the item's id, summary, tags, modality and source_refs
\* and with the text of summary and all highlights joined by single spaces,
\* and so appends one document per item, holding the embedding of that text;
\* what the index held stays in front; the call returns the number of items,
\* by which the index has grown.
C24_IngestAppendsItems ==
    [][lastOp'.op = "ingest" =>
            LET bundle == lastOp'.arg.val
            IN  /\ addLog' = addLog \o [i \in 1..Len(bundle) |-> AddedAs(bundle[i])]
                /\ docs' = docs \o [i \in 1..Len(bundle) |-> StoredAs(bundle[i])]
                /\ lastOp'.result.val = Len(bundle)
                /\ Len(docs') = Len(docs) + lastOp'.result.val]_vars

\* a bundle of two items, one with three highlights and several source_refs,
\* the other with none, was ingested into an index that already held
\* documents; the later highlights are in the stored vector
C24_Witness ==
    /\ lastOp.op = "ingest"
    /\ lastOp.before > 0
    /\ lastOp.result.val = 2
    /\ Len(docs) = lastOp.before + lastOp.result.val
    /\ \E i \in 1..Len(lastOp.arg.val) :
            /\ Len(lastOp.arg.val[i].highlights) = 3
            /\ Len(lastOp.arg.val[i].source_refs) > 1
            /\ docs[lastOp.before + i].vector
                    # embed_text(SpacedAfter(lastOp.arg.val[i].summary,
                                             SubSeq(lastOp.arg.val[i].highlights, 1, 1)))
    /\ \E i \in 1..Len(lastOp.arg.val) : lastOp.arg.val[i].highlights = <<>>

\* hits by descending score, hits of equal score in their order in hits: the
\* place of hits[i] is one more than the number of hits that go before it
StableOrder(hits) ==
    LET n == Len(hits)
        Place(i) == 1 + Cardinality({j \in 1..n : hits[j].score > hits[i].score})
                      + Cardinality({j \in 1..(i - 1) : hits[j].score = hits[i].score})
    IN  [p \in 1..n |-> hits[CHOOSE i \in 1..n : Place(i) = p]]

\* C25: index.query builds one hit per stored document, also for similarity 0,
\* orders them by descending score with equal scores in insertion order and
\* returns the slice [:top_k] of that order; engine.query orders the hits it got
\* by descending adjusted score with equal scores in the order it got them.
C25_StableTieBreak ==
    lastOp.op = "query" =>
        LET text == lastOp.arg.val[1]
            top_k == lastOp.arg.val[2]
            inner == lastOp.inner.val
            every == [i \in 1..Len(docs) |-> RetrievalHit(embed_text(text), docs[i])]
            boosted == [i \in 1..Len(inner) |->
                          [inner[i] EXCEPT !.score = OwedScore(inner[i], text)]]
        IN  /\ inner = SliceTo(StableOrder(every), top_k)
            /\ top_k >= Len(docs) => Len(inner) = Len(docs)
            /\ lastOp.result.val = SliceTo(StableOrder(boosted), top_k)

\* a query returned two different documents of raw score 0 and equal adjusted
\* score, the one stored first in front
C25_Witness ==
    /\ lastOp.op = "query"
    /\ Len(lastOp.result.val) = Len(docs)
    /\ \E i, j \in 1..Len(docs) :
            /\ i < j
            /\ docs[i].id # docs[j].id
            /\ \E p \in 1..(Len(docs) - 1) :
                    /\ lastOp.inner.val[p].id = docs[i].id
                    /\ lastOp.inner.val[p + 1].id = docs[j].id
                    /\ lastOp.inner.val[p].score = 0
                    /\ lastOp.inner.val[p + 1].score = 0
                    /\ lastOp.result.val[p].id = docs[i].id
                    /\ lastOp.result.val[p + 1].id = docs[j].id
                    /\ lastOp.result.val[p].score = lastOp.result.val[p + 1].score

\* how many hits of a sequence stand for the document of key
CountKey(hits, key) == Cardinality({i \in 1..Len(hits) : HitKey(hits[i]) = key})

\* every hit of some is a hit of all, as often at most
AmongHits(some, all) ==
    \A i \in 1..Len(some) :
        CountKey(some, HitKey(some[i])) <= CountKey(all, HitKey(some[i]))

\* C26: whatever tag_boost and source_boost are, every hit engine.query returns
\* is one of the hits index.query returned for the same text and top_k.
C26_BoostsAfterSelection ==
    lastOp.op = "query" =>
        /\ AmongHits(lastOp.result.val, lastOp.inner.val)
        /\ \A tb \in LargeBoosts, sb \in LargeBoosts :
                AmongHits(EngineQuery(docs, tb, sb, lastOp.arg.val[1], lastOp.arg.val[2]),
                          lastOp.inner.val)

\* a query with top_k = 1 returned the index's first hit although a stored
\* document outside the index's result would have a higher adjusted score
C26_Witness ==
    /\ lastOp.op = "query"
    /\ lastOp.arg.val[2] = 1
    /\ Len(lastOp.result.val) = 1
    /\ HitKey(lastOp.result.val[1]) = HitKey(lastOp.inner.val[1])
    /\ \E i \in 1..Len(docs) :
            LET hit == RetrievalHit(embed_text(lastOp.arg.val[1]), docs[i])
            IN  /\ HitKey(hit) # HitKey(lastOp.inner.val[1])
                /\ OwedScore(hit, lastOp.arg.val[1]) > lastOp.result.val[1].score

\* the tokenizer as the specification describes it: pieces between white
\* space, stripped of the punctuation set that includes the double quote,
\* lowercased, pieces empty after stripping dropped
ReferenceStripChars == StripChars \cup {"\""}

ReferenceTokens(text) ==
    LET pieces == split(text)
        stripped == [i \in 1..Len(pieces) |-> lower(strip(pieces[i], ReferenceStripChars))]
    IN  SelectSeq(stripped, LAMBDA t : t # <<>>)

AllPunctuation(text) == \A i \in 1..Len(text) : text[i] \in ReferenceStripChars \cup Whitespace

\* C27 (as claimed): the tokens of every text are those of the reference, and
\* the embedding of an empty or all-punctuation text is the empty vector.
C27_TokenizerIsReference ==
    Embedded =>
        /\ tokenize(lastOp.arg.val) = ReferenceTokens(lastOp.arg.val)
        /\ AllPunctuation(lastOp.arg.val) => DOMAIN lastOp.result.val.cnt = {}

\* the result of the case last run, had the engine had the boosts tb and sb
ResultUnder(tb, sb) ==
    run([docs |-> <<>>, tag_boost |-> tb, source_boost |-> sb], <<TheCase>>).suite

HitIds(result) == [i \in 1..Len(result.hits) |-> result.hits[i].id]

\* two sequences hold the same elements, each as often
SameCollection(s, t) ==
    /\ Len(s) = Len(t)
    /\ \A x \in Range(s) \cup Range(t) :
            Cardinality({i \in 1..Len(s) : s[i] = x})
                = Cardinality({i \in 1..Len(t) : t[i] = x})

\* C28: for a case with top_k >= 0 the collection of hit ids, the set of
\* relevant ids found, precision_at_k, recall_at_k and the suite macros are the
\* same under every tag_boost and source_boost.
C28_MetricsIndependentOfBoosts ==
    (CaseRan /\ TheCase.top_k >= 0) =>
        \A tb \in LargeBoosts, sb \in LargeBoosts :
            LET other == ResultUnder(tb, sb)
                mine == lastOp.inner.val
            IN  /\ SameCollection(HitIds(TheResult), HitIds(other.results[1]))
                /\ Range(TheResult.relevant_found) = Range(other.results[1].relevant_found)
                /\ TheResult.precision_at_k = other.results[1].precision_at_k
                /\ TheResult.recall_at_k = other.results[1].recall_at_k
                /\ mine.macro_precision = other.macro_precision
                /\ mine.macro_recall = other.macro_recall

\* a case with top_k >= 0 run on a boosted engine returned its hits in another
\* order than a baseline engine does, a relevant hit among them
C28_Witness ==
    /\ CaseRan
    /\ TheCase.top_k >= 0
    /\ tag_boost > 0
    /\ TheResult.relevant_found # <<>>
    /\ Len(TheResult.relevant_found) < Len(TheResult.hits)
    /\ HitIds(TheResult) # HitIds(ResultUnder(0, 0).results[1])

\* C29 (as claimed): every run of a run_all call has one result per supplied
\* case, in case order, for the first adapter and every later one, also when
\* the cases are supplied as a single-pass iterable.
C29_EveryAdapterSeesAllCases ==
    \A r \in 1..Len(call.runs) :
        [j \in 1..Len(call.runs[r].suite.results) |-> call.runs[r].suite.results[j].case_id]
            = [j \in 1..Len(call.cases) |-> call.cases[j].id]

\* C30: run leaves the index as it was when the case list is empty, and
\* otherwise holding exactly the documents of the last case's bundle, in bundle
\* order, whatever it held before; the boost coefficients stay as they were.
C30_RunLeavesLastCorpus ==
    [][lastOp'.op = "run" =>
            LET cases == lastOp'.arg.val
                last == cases[Len(cases)].bundle
            IN  /\ cases = <<>> => docs' = docs
                /\ cases # <<>> => docs' = [i \in 1..Len(last) |-> StoredAs(last[i])]
                /\ tag_boost' = tag_boost
                /\ source_boost' = source_boost]_vars

\* run over two cases with different corpora was called on an index that held
\* documents; the index now holds the corpus of the second case only
C30_Witness ==
    /\ lastOp.op = "run"
    /\ lastOp.before > 0
    /\ Len(lastOp.arg.val) = 2
    /\ lastOp.arg.val[1].bundle # lastOp.arg.val[2].bundle
    /\ Len(docs) = Len(lastOp.arg.val[2].bundle)
    /\ Len(docs) # lastOp.before
    /\ \A i \in 1..Len(docs) : docs[i].id = lastOp.arg.val[2].bundle[i].id

=============================================================================
